---- MODULE Spec2Model ----
(***************************************************************************)
(* Fitness & Nutrition MCP server (mcp_server.py and its modular layout    *)
(* utils.py / nutritionix.py / server/wger.py / combined.py).              *)
(*                                                                         *)
(* The model follows one process: module loading (credential check), then  *)
(* tool invocations.  A tool is an asyncio coroutine: the code between two  *)
(* awaits runs atomically, so an invocation is a sequence of atomic        *)
(* segments separated by upstream HTTP calls that are in flight.           *)
(*                                                                         *)
(* Strings on which the code calls .lower() or the "in" operator are       *)
(* sequences of one-character strings; query strings are sequences of      *)
(* space-separated tokens; floats are integers in hundredths.             *)
(***************************************************************************)
EXTENDS Integers, Sequences, FiniteSets, TLC

VARIABLES
    env,        \* process environment: the two credential variables
    layout,     \* which module is the entry point of the process
    boot,       \* "start" | "serving" | "failed"
    config,     \* module-level globals set while the modules load
    pc,         \* per invocation: "idle" | "await" | "done"
    tool,       \* per invocation: name of the tool being run
    args,       \* per invocation: the arguments
    locals,     \* per invocation: the coroutine's local variables
    pending,    \* per invocation: the upstream request in flight
    calls,      \* per invocation: every upstream request issued so far
    fates,      \* per invocation: how each answered request ended
    log,        \* per invocation: the upstream outcomes received (history)
    result      \* per invocation: the value handed back to the caller

vars == <<env, layout, boot, config, pc, tool, args, locals, pending, calls,
          fates, log, result>>

(***************************************************************************)
(* Bounds of the model.                                                    *)
(***************************************************************************)
MaxLimit == 4       \* largest "limit" argument tried (besides the defaults)
MaxRecs  == 2       \* most records one upstream reply holds
MaxFoods == 2       \* most foods one reply of the nutrient lookups holds
ManyFoods == 26      \* foods in the long reply to the instant search
NumInv   == 2       \* invocations that may be in flight together

(***************************************************************************)
(* Python helpers.                                                         *)
(***************************************************************************)
Min(a, b) == IF a < b THEN a ELSE b
Max(a, b) == IF a > b THEN a ELSE b

UpperChars == <<"A","B","C","D","E","F","G","H","I","J","K","L","M",
                "N","O","P","Q","R","S","T","U","V","W","X","Y","Z">>
LowerChars == <<"a","b","c","d","e","f","g","h","i","j","k","l","m",
                "n","o","p","q","r","s","t","u","v","w","x","y","z">>

\* str.lower() on one character
LowerMap ==
    [c \in {UpperChars[k] : k \in 1..26} |->
        LowerChars[CHOOSE k \in 1..26 : UpperChars[k] = c]]
LowerChar(c) == IF c \in DOMAIN LowerMap THEN LowerMap[c] ELSE c

\* str.lower()
Lower(s) == [k \in 1..Len(s) |-> LowerChar(s[k])]

\* a in b, for strings
IsSubstring(a, b) ==
    \E k \in 0..(Len(b) - Len(a)) :
        \A j \in 1..Len(a) : b[k + j] = a[j]

\* s[:n]
SliceTo(s, n) ==
    IF n >= 0 THEN SubSeq(s, 1, Min(n, Len(s)))
    ELSE SubSeq(s, 1, Max(Len(s) + n, 0))

\* s[n:], n >= 0
SliceFrom(s, n) == SubSeq(s, Min(n, Len(s)) + 1, Len(s))

\* dict.get(key, default) on a dict given as a sequence of [key, value]
\* round(x, n): x in fine units, q the number of fine units in one unit of
\* the n-th decimal; ties go to the even neighbour
Round(x, q) ==
    LET f == x \div q
        r == x % q
    IN IF 2 * r < q THEN f
       ELSE IF 2 * r > q THEN f + 1
       ELSE IF f % 2 = 0 THEN f ELSE f + 1

DictHas(d, key) == \E k \in 1..Len(d) : d[k].key = key
DictGet(d, key, default) ==
    IF DictHas(d, key)
    THEN d[CHOOSE k \in 1..Len(d) : d[k].key = key].value
    ELSE default
DictKeys(d) == [k \in 1..Len(d) |-> d[k].key]

(***************************************************************************)
(* String literals used with .lower() / "in".                              *)
(***************************************************************************)
s_chest      == <<"c","h","e","s","t">>
s_back       == <<"b","a","c","k">>
s_shoulders  == <<"s","h","o","u","l","d","e","r","s">>
s_arms       == <<"a","r","m","s">>
s_legs       == <<"l","e","g","s">>
s_abs        == <<"a","b","s">>
s_core       == <<"c","o","r","e">>
s_Chest      == <<"C","h","e","s","t">>
s_LEGS       == <<"L","E","G","S">>
s_bogus      == <<"b","o","g","u","s">>
s_chests     == <<"c","h","e","s","t","s">>
s_empty      == <<>>

(***************************************************************************)
(* Module-level configuration.                                             *)
(***************************************************************************)
NUTRITIONIX_BASE_URL == "https://trackapi.nutritionix.com/v2"
WGER_BASE_URL == "https://wger.de/api/v2"

\* os.getenv(name): None when the variable is absent
EnvValues == {"absent", "empty", "id-value", "key-value"}
Getenv(v) == IF v = "absent" THEN "None" ELSE IF v = "empty" THEN "" ELSE v

\* Python truthiness of a str-or-None
Truthy(v) == v # "None" /\ v # ""

Unloaded == [app_id |-> "unset", app_key |-> "unset",
             nutritionix_url |-> "unset", wger_url |-> "unset"]

\* the globals once the assignments at the top of the module have run
LoadedConfig(e) ==
    [app_id |-> Getenv(e.NUTRITIONIX_APP_ID),
     app_key |-> Getenv(e.NUTRITIONIX_APP_KEY),
     nutritionix_url |-> NUTRITIONIX_BASE_URL,
     wger_url |-> WGER_BASE_URL]

\* the module-level guard of mcp_server.py: TRUE when it raises ValueError
CredentialCheckRaises_and(c) == ~Truthy(c.app_id) /\ ~Truthy(c.app_key)
CredentialCheckRaises(c) == ~Truthy(c.app_id) \/ ~Truthy(c.app_key)

\* the modules whose top-level code runs before any tool is registered:
\* mcp_server.py alone, or a module of the modular layout, which imports
\* utils and mcp_server (for the mcp object its decorators use)
ImportChain(l) ==
    IF l = "single" THEN <<"mcp_server">> ELSE <<"utils", "mcp_server">>
GuardRuns_single(l) == l = "single"
GuardRuns(l) ==
    \E k \in 1..Len(ImportChain(l)) : ImportChain(l)[k] = "mcp_server"

get_nutritionix_headers ==
    [x_app_id |-> config.app_id, x_app_key |-> config.app_key,
     content_type |-> "application/json"]

get_wger_headers ==
    [accept |-> "application/json",
     user_agent |-> "Fitness-Nutrition-MCP-Server/1.0"]

(***************************************************************************)
(* Upstream requests.                                                      *)
(***************************************************************************)
NoRequest ==
    [provider |-> "none", method |-> "", url |-> <<>>, headers |-> <<>>,
     filter |-> "", value |-> 0, limit |-> 0, language |-> 0,
     query |-> <<>>, weight_kg |-> 0]

\* client.get(f"{WGER_BASE_URL}{path}", headers=get_wger_headers(), params=...)
WgerGet(path, filter, value, limit, language, query) ==
    [provider |-> "wger", method |-> "GET",
     url |-> <<config.wger_url, path>>, headers |-> get_wger_headers,
     filter |-> filter, value |-> value, limit |-> limit,
     language |-> language, query |-> query, weight_kg |-> 0]

\* client.get / client.post on the Nutritionix API
NixCall(method, path, query, weight) ==
    [provider |-> "nutritionix", method |-> method,
     url |-> <<config.nutritionix_url, path>>,
     headers |-> get_nutritionix_headers,
     filter |-> "", value |-> 0, limit |-> 0, language |-> 0,
     query |-> query, weight_kg |-> weight]

(***************************************************************************)
(* Upstream outcomes: a transport failure, or a response with a status     *)
(* and a body.  A body is not JSON ("text"), a JSON array, or a JSON       *)
(* object that may hold the list the tool reads (key) and, for the instant *)
(* search, a second list (key2).  A record's fld says whether the fields   *)
(* the tool computes with are present ("ok"), JSON null or absent.         *)
(***************************************************************************)
Statuses == {200, 201, 404, 500}
Is2xx(s) == 200 <= s /\ s <= 299

Rec(id, name, fld) == [id |-> id, name |-> name, fld |-> fld]

Body(form, key, records, key2, records2) ==
    [form |-> form, key |-> key, records |-> records,
     key2 |-> key2, records2 |-> records2]
NoBody == Body("none", FALSE, <<>>, FALSE, <<>>)

Transport == [kind |-> "transport", status |-> 0, body |-> NoBody]
Response(s, b) == [kind |-> "response", status |-> s, body |-> b]

\* the provider's records for a request: record k of the answer to a WGER
\* list call carries the requested filter value in its id; the second
\* record lacks the optional fields
UpstreamName(k) == IF k = 1 THEN <<"B","a","r","b","e","l","l">>
                   ELSE <<"S","Z","-","B","a","r">>
UpstreamRecords(req, n) ==
    [k \in 1..n |-> Rec(req.value * 10 + k, UpstreamName(k),
                        IF k = 2 THEN "absent" ELSE "ok")]

\* bodies a 2xx reply may carry
GoodBodies(req) ==
    {Body("text", FALSE, <<>>, FALSE, <<>>),
     Body("array", FALSE, <<>>, FALSE, <<>>),
     Body("object", FALSE, <<>>, FALSE, <<>>)}
    \cup {Body("object", TRUE, UpstreamRecords(req, n), FALSE, <<>>) :
              n \in 0..MaxRecs}
    \cup {Body("object", TRUE,
               <<Rec(req.value * 10 + 9, UpstreamName(1), "null")>>,
               FALSE, <<>>)}
    \cup (IF req.url[2] = "/equipment/"
          THEN {Body("object", TRUE, <<Rec(0, UpstreamName(1), "ok")>>,
                     FALSE, <<>>)}
          ELSE {})
    \cup (IF req.url[2] = "/search/instant"
          THEN {Body("object", k1, UpstreamRecords(req, n), TRUE,
                     UpstreamRecords(req, MaxRecs)) :
                    k1 \in BOOLEAN, n \in 1..MaxRecs}
               \cup {Body("object", TRUE, UpstreamRecords(req, ManyFoods),
                          FALSE, <<>>)}
          ELSE {})

\* bodies an error reply may carry (the tools only echo them)
ErrorBodies ==
    {Body("text", FALSE, <<>>, FALSE, <<>>),
     Body("object", FALSE, <<>>, FALSE, <<>>)}

Outcomes(req) ==
    {Transport}
    \cup {Response(s, b) : s \in {200, 201}, b \in GoodBodies(req)}
    \cup {Response(s, b) : s \in {404, 500}, b \in ErrorBodies}

\* how a request ended, as the caller of httpx sees it, with the status of
\* a reply that raise_for_status() rejects
Fate(o) ==
    IF o.kind = "transport" THEN [fate |-> "transport", status |-> 0]
    ELSE IF Is2xx(o.status) THEN [fate |-> "ok", status |-> 0]
    ELSE [fate |-> "status", status |-> o.status]

\* a 2xx reply that decodes to an object without null fields, and one that
\* moreover holds no record
Sound(o) ==
    /\ o.kind = "response" /\ Is2xx(o.status) /\ o.body.form = "object"
    /\ \A k \in 1..Len(o.body.records) : o.body.records[k].fld # "null"
Empty(o) == Sound(o) /\ (~o.body.key \/ o.body.records = <<>>)

(***************************************************************************)
(* Exceptions.  Every exception the tools can meet derives from Exception. *)
(***************************************************************************)
ExceptionClasses ==
    {"ConnectError", "HTTPStatusError", "JSONDecodeError", "AttributeError",
     "TypeError", "ZeroDivisionError"}

\* the await on client.get / client.post
AwaitRaises(o) == IF o.kind = "transport" THEN "ConnectError" ELSE "none"

\* response.raise_for_status()
RaiseForStatus(o) == IF Is2xx(o.status) THEN "none" ELSE "HTTPStatusError"

\* response.json()
JsonRaises(o) == IF o.body.form = "text" THEN "JSONDecodeError" ELSE "none"

\* data.get(key, []) on the decoded body
GetRaises(o) == IF o.body.form = "array" THEN "AttributeError" ELSE "none"
GetList(o) == IF o.body.key THEN o.body.records ELSE <<>>

\* key not in data or not data[key]
Missing(o) == o.body.form = "array" \/ ~o.body.key \/ o.body.records = <<>>

\* the first exception of a sequence of steps, "none" if none raises
FirstRaised(steps) ==
    IF \E k \in 1..Len(steps) : steps[k] # "none"
    THEN steps[CHOOSE k \in 1..Len(steps) :
                 steps[k] # "none" /\ \A j \in 1..(k-1) : steps[j] = "none"]
    ELSE "none"

\* x.get("description", "").replace(...): raises on a JSON null
AnyNull(recs) == \E k \in 1..Len(recs) : recs[k].fld = "null"
DerefRaises(recs, exc) == IF AnyNull(recs) THEN exc ELSE "none"

(***************************************************************************)
(* Values a tool hands back.                                               *)
(***************************************************************************)
NoPayload == [none |-> TRUE]

\* kind: "json" (a serialized document) or "text"; prefix: the fixed text
\* of the f-string; interp: the expressions it interpolates, in order;
\* status, body, query, groups, message: their values
Value(kind, prefix, interp, status, body, query, groups, message, payload) ==
    [kind |-> kind, prefix |-> prefix, interp |-> interp, status |-> status,
     body |-> body, query |-> query, groups |-> groups, message |-> message,
     payload |-> payload]

NoResult == Value("none", "", <<>>, 0, NoBody, <<>>, <<>>, "", NoPayload)

\* json.dumps(payload, indent=2)
JsonDoc(payload) ==
    Value("json", "", <<>>, 0, NoBody, <<>>, <<>>, "", payload)

\* f"{prefix}: {e.response.status_code} - {e.response.text}"
StatusError(prefix, o) ==
    Value("text", prefix, <<"status_code", "text">>, o.status, o.body,
          <<>>, <<>>, "", NoPayload)

\* f"Error <doing X>: {str(e)}"
UnexpectedError(prefix, exc) ==
    Value("text", prefix, <<"str(e)">>, 0, NoBody, <<>>, <<>>, exc, NoPayload)

\* f"<not found text>: {query}"
NotFound_bare(prefix, query) ==
    Value("text", prefix, <<>>, 0, NoBody, <<>>, <<>>, "", NoPayload)
NotFound(prefix, query) ==
    Value("text", prefix, <<"query">>, 0, NoBody, query, <<>>, "", NoPayload)

\* an exception that leaves the coroutine
Escaped(exc) ==
    Value("raised", "", <<>>, 0, NoBody, <<>>, <<>>, exc, NoPayload)

(***************************************************************************)
(* Coroutine segments.  A segment ends at the next await (Pending) or at   *)
(* the return (Finished).                                                  *)
(***************************************************************************)
NoOutcome == [kind |-> "none", status |-> 0, body |-> NoBody]

\* the local variables a coroutine keeps across its awaits
NoLocals ==
    [k |-> 0,                   \* position in the loop over IDs / groups
     exercises |-> <<>>,        \* exercises = []
     response1 |-> NoOutcome,   \* response1 of compare_foods
     workout_structure |-> <<>>,\* workout_structure = {}
     query |-> <<>>]            \* query / query1 / meal_query

Finished_blocked(val) ==
    [pc |-> "await", request |-> NoRequest, locals |-> NoLocals,
     result |-> val]
Finished(val) ==
    [pc |-> "done", request |-> NoRequest, locals |-> NoLocals,
     result |-> val]
Pending(req, l) ==
    [pc |-> "await", request |-> req, locals |-> l, result |-> NoResult]

(***************************************************************************)
(* The except clauses at the tool boundary.                                *)
(***************************************************************************)
NutritionixTools ==
    {"search_foods", "get_food_nutrients", "compare_foods", "analyze_meal",
     "calculate_exercise_calories"}
WgerTools ==
    {"search_exercises", "get_exercises_by_muscle", "get_equipment_exercises",
     "get_workout_templates"}
LocalTools ==
    {"calculate_daily_needs", "suggest_pre_post_workout_meals",
     "track_weekly_progress"}
Tools == NutritionixTools \cup WgerTools \cup LocalTools
             \cup {"create_fitness_plan"}

\* tools with an "except httpx.HTTPStatusError" clause, and its prefix
HasStatusClause(t) == t \in NutritionixTools \cup WgerTools
ApiErrorPrefix(t) ==
    IF t \in WgerTools THEN "WGER API Error" ELSE "API Error"

\* the text of the "except Exception" clause
ErrorLabel(t) ==
    CASE t = "search_foods" -> "Error searching foods"
      [] t = "get_food_nutrients" -> "Error getting nutritional information"
      [] t = "compare_foods" -> "Error comparing foods"
      [] t = "analyze_meal" -> "Error analyzing meal"
      [] t = "calculate_daily_needs" -> "Error calculating daily needs"
      [] t = "search_exercises" -> "Error searching exercises"
      [] t = "get_exercises_by_muscle" -> "Error getting exercises by muscle"
      [] t = "get_equipment_exercises" -> "Error getting equipment exercises"
      [] t = "get_workout_templates" -> "Error getting workout templates"
      [] t = "calculate_exercise_calories" ->
             "Error calculating exercise calories"
      [] t = "create_fitness_plan" -> "Error creating fitness plan"
      [] t = "suggest_pre_post_workout_meals" ->
             "Error suggesting workout meals"
      [] t = "track_weekly_progress" -> "Error tracking progress"

\* except Exception as e
CaughtByExcept_narrow(exc) == exc \in {"ConnectError", "HTTPStatusError"}
CaughtByExcept(exc) == exc \in ExceptionClasses

\* the handlers of a tool, applied to exception exc raised while o was the
\* response at hand
Handle(t, exc, o) ==
    IF exc = "HTTPStatusError" /\ HasStatusClause(t)
    THEN StatusError(ApiErrorPrefix(t), o)
    ELSE IF CaughtByExcept(exc)
    THEN UnexpectedError(ErrorLabel(t), exc)
    ELSE Escaped(exc)

(***************************************************************************)
(* WGER tools.                                                             *)
(***************************************************************************)
\* the dict built for every exercise of a list reply
ExerciseInfo(recs) ==
    [k \in 1..Len(recs) |->
        [id |-> recs[k].id, name |-> recs[k].name,
         description |-> IF recs[k].fld = "absent" THEN "" ELSE "text"]]

\* await + raise_for_status + json + the loop over data.get("results", [])
ListReplyRaises(o) ==
    FirstRaised(<<AwaitRaises(o), RaiseForStatus(o), JsonRaises(o),
                  GetRaises(o), DerefRaises(GetList(o), "AttributeError")>>)

Begin_search_exercises(a) ==
    Pending(WgerGet("/exercise/", "search", 0, a.limit, 2, a.query),
            NoLocals)

Resume_search_exercises(a, l, o) ==
    LET exc == ListReplyRaises(o) IN
    IF exc # "none" THEN Finished(Handle("search_exercises", exc, o))
    ELSE Finished(JsonDoc([query |-> a.query,
                           exercises |-> ExerciseInfo(GetList(o))]))

muscle_mapping ==
    << [key |-> s_chest,     value |-> <<4>>],
       [key |-> s_back,      value |-> <<12, 13>>],
       [key |-> s_shoulders, value |-> <<2, 3>>],
       [key |-> s_arms,      value |-> <<1, 5, 8>>],
       [key |-> s_legs,      value |-> <<10, 11, 7, 9>>],
       [key |-> s_abs,       value |-> <<14, 6>>],
       [key |-> s_core,      value |-> <<14, 6>> ] >>

\* f"Invalid muscle group. Available groups: {available_groups}"
InvalidGroup ==
    Value("text", "Invalid muscle group. Available groups",
          <<"available_groups">>, 0, NoBody, <<>>,
          DictKeys(muscle_mapping), "", NoPayload)

\* muscle_mapping.get(muscle_group.lower(), [])
MuscleIds_exact(group) == DictGet(muscle_mapping, group, <<>>)
MuscleIds(group) == DictGet(muscle_mapping, Lower(group), <<>>)

\* the request of one turn of the loop over muscle_ids
MuscleRequest_whole(ids, k, limit) ==
    WgerGet("/exercise/", "muscles", ids[k], limit, 2, <<>>)
MuscleRequest(ids, k, limit) ==
    WgerGet("/exercise/", "muscles", ids[k], limit \div Len(ids), 2, <<>>)

\* exercises[:limit]
Truncate_none(exercises, limit) == exercises
Truncate(exercises, limit) == SliceTo(exercises, limit)

Begin_get_exercises_by_muscle(a) ==
    LET muscle_ids == MuscleIds(a.muscle_group) IN
    IF muscle_ids = <<>> THEN Finished(InvalidGroup)
    ELSE Pending(MuscleRequest(muscle_ids, 1, a.limit),
                 [NoLocals EXCEPT !.k = 1])

Resume_get_exercises_by_muscle(a, l, o) ==
    LET muscle_ids == MuscleIds(a.muscle_group)
        exc == ListReplyRaises(o)
        exercises == l.exercises \o ExerciseInfo(GetList(o))
    IN
    IF exc # "none" THEN Finished(Handle("get_exercises_by_muscle", exc, o))
    ELSE IF l.k < Len(muscle_ids)
    THEN Pending(MuscleRequest(muscle_ids, l.k + 1, a.limit),
                 [l EXCEPT !.k = l.k + 1, !.exercises = exercises])
    ELSE Finished(JsonDoc([muscle_group |-> a.muscle_group,
                           total_exercises |-> Len(exercises),
                           exercises |-> Truncate(exercises, a.limit)]))

s_barbell    == <<"b","a","r","b","e","l","l">>
s_dumbbell   == <<"d","u","m","b","b","e","l","l">>
s_bodyweight == <<"b","o","d","y","w","e","i","g","h","t">>
s_machine    == <<"m","a","c","h","i","n","e">>
s_cable      == <<"c","a","b","l","e">>
s_kettlebell == <<"k","e","t","t","l","e","b","e","l","l">>
s_Kettlebell == <<"K","e","t","t","l","e","b","e","l","l">>
s_bar        == <<"b","a","r">>
s_rope       == <<"r","o","p","e">>

equipment_mapping ==
    << [key |-> s_dumbbell,   value |-> 1],
       [key |-> s_barbell,    value |-> 2],
       [key |-> s_bodyweight, value |-> 7],
       [key |-> s_machine,    value |-> 3],
       [key |-> s_cable,      value |-> 4],
       [key |-> s_kettlebell, value |-> 9] >>

\* equipment.get("name", ""): "" when the key is absent
EquipmentName(r) == IF r.fld = "absent" THEN <<>> ELSE r.name

\* equipment_name.lower() in equipment.get("name", "").lower()
NameMatches(equipment_name, r) ==
    r.fld # "null" /\ IsSubstring(Lower(equipment_name), Lower(EquipmentName(r)))

\* index of the entry at which the search loop breaks, 0 if it runs out
FirstMatch(equipment_name, recs) ==
    IF \E k \in 1..Len(recs) : NameMatches(equipment_name, recs[k])
    THEN CHOOSE k \in 1..Len(recs) :
            /\ NameMatches(equipment_name, recs[k])
            /\ \A j \in 1..(k-1) : ~NameMatches(equipment_name, recs[j])
    ELSE 0

\* None.lower() on an entry the loop visits before it breaks
SearchRaises(equipment_name, recs) ==
    LET m == FirstMatch(equipment_name, recs)
        last == IF m = 0 THEN Len(recs) ELSE m - 1
    IN IF \E k \in 1..last : recs[k].fld = "null"
       THEN "AttributeError" ELSE "none"

\* equipment_id after the search loop and the fallback table (0: None)
ResolveEquipment(equipment_name, recs) ==
    LET m == FirstMatch(equipment_name, recs)
        found == IF m = 0 THEN 0 ELSE recs[m].id
    IN IF found # 0 THEN found
       ELSE DictGet(equipment_mapping, Lower(equipment_name), 0)

\* f"Equipment '{equipment_name}' not found. Try: ..."
EquipmentNotFound(equipment_name) ==
    Value("text", "Equipment not found. Try", <<"equipment_name">>, 0,
          NoBody, equipment_name, DictKeys(equipment_mapping), "", NoPayload)

Begin_get_equipment_exercises(a) ==
    Pending(WgerGet("/equipment/", "", 0, 50, 0, <<>>),
            [NoLocals EXCEPT !.k = 1])

Resume_get_equipment_exercises(a, l, o) ==
    IF l.k = 1
    THEN LET exc == FirstRaised(<<AwaitRaises(o), RaiseForStatus(o),
                                  JsonRaises(o), GetRaises(o),
                                  SearchRaises(a.equipment_name, GetList(o))>>)
             equipment_id == ResolveEquipment(a.equipment_name, GetList(o))
         IN IF exc # "none"
            THEN Finished(Handle("get_equipment_exercises", exc, o))
            ELSE IF equipment_id = 0
            THEN Finished(EquipmentNotFound(a.equipment_name))
            ELSE Pending(WgerGet("/exercise/", "equipment", equipment_id,
                                 a.limit, 2, <<>>),
                         [l EXCEPT !.k = 2])
    ELSE LET exc == ListReplyRaises(o) IN
         IF exc # "none"
         THEN Finished(Handle("get_equipment_exercises", exc, o))
         ELSE Finished(JsonDoc([equipment |-> a.equipment_name,
                                total_exercises |-> Len(GetList(o)),
                                exercises |-> ExerciseInfo(GetList(o))]))

\* the dict built for every workout of the reply
WorkoutInfo(recs) ==
    [k \in 1..Len(recs) |->
        [id |-> recs[k].id,
         name |-> IF recs[k].fld = "absent" THEN <<"Workout">>
                  ELSE IF recs[k].fld = "null" THEN <<"null">>
                  ELSE recs[k].name,
         description |-> ""]]

\* params={"limit": 20}
TemplatesRequest_filtered(difficulty) ==
    WgerGet("/workout/", "difficulty", 0, 20, 0, <<difficulty>>)
TemplatesRequest(difficulty) == WgerGet("/workout/", "", 0, 20, 0, <<>>)

Begin_get_workout_templates(a) ==
    Pending(TemplatesRequest(a.difficulty), NoLocals)

Resume_get_workout_templates(a, l, o) ==
    LET exc == FirstRaised(<<AwaitRaises(o), RaiseForStatus(o),
                             JsonRaises(o), GetRaises(o)>>)
    IN IF exc # "none"
       THEN Finished(Handle("get_workout_templates", exc, o))
       ELSE Finished(JsonDoc([difficulty |-> a.difficulty,
                              available_workouts |-> Len(GetList(o)),
                              workouts |-> WorkoutInfo(GetList(o))]))

(***************************************************************************)
(* Nutritionix tools.                                                      *)
(***************************************************************************)
\* f"{quantity}" for the float quantities of the model (hundredths)
FloatStr(q) ==
    CASE q = 50 -> "0.5" [] q = 100 -> "1.0" [] q = 200 -> "2.0"
      [] OTHER -> "float"

\* f"{duration_min}" for the integer durations of the model
IntStr(n) ==
    CASE n = 30 -> "30" [] n = 45 -> "45" [] n = 0 -> "0" [] OTHER -> "int"

\* the query of get_food_nutrients and compare_foods
FoodQuery_both(food_name, quantity, unit) ==
    IF quantity # 100 /\ unit # "serving"
    THEN <<FloatStr(quantity), unit>> \o food_name
    ELSE food_name
FoodQuery(food_name, quantity, unit) ==
    IF quantity # 100 \/ unit # "serving"
    THEN <<FloatStr(quantity), unit>> \o food_name
    ELSE food_name

\* await + raise_for_status + json
ReplyRaises(o) ==
    FirstRaised(<<AwaitRaises(o), RaiseForStatus(o), JsonRaises(o)>>)

\* the nutrient fields of the food the provider lists under an id, in
\* hundredths (kcal, g, mg); a key the provider leaves out is not in the dict
Nutrients(id) ==
    CASE id = 1 -> << [key |-> "nf_calories",           value |-> 9464],
                      [key |-> "nf_protein",            value |-> 47],
                      [key |-> "nf_total_carbohydrate", value |-> 2513],
                      [key |-> "nf_total_fat",          value |-> 31],
                      [key |-> "nf_dietary_fiber",      value |-> 437],
                      [key |-> "nf_sodium",             value |-> 182],
                      [key |-> "nf_sugars",             value |-> 1891] >>
      [] id = 2 -> << [key |-> "nf_calories",           value |-> 7150],
                      [key |-> "nf_protein",            value |-> 628],
                      [key |-> "nf_total_carbohydrate", value |-> 36],
                      [key |-> "nf_total_fat",          value |-> 476],
                      [key |-> "nf_sodium",             value |-> 7100] >>
      [] id = 3 -> << [key |-> "nf_calories",           value |-> 0],
                      [key |-> "nf_protein",            value |-> 0],
                      [key |-> "nf_total_carbohydrate", value |-> 0],
                      [key |-> "nf_total_fat",          value |-> 0] >>
      [] id = 4 -> << [key |-> "nf_calories",           value |-> 0],
                      [key |-> "nf_total_carbohydrate", value |-> 90] >>
      [] OTHER -> <<>>

\* food.get(key, 0)
Nutrient(food, key) ==
    IF food.fld = "absent" THEN 0 ELSE DictGet(Nutrients(food.id), key, 0)

\* the reduced dicts of search_foods
FoodSummary(recs) ==
    [k \in 1..Len(recs) |-> [id |-> recs[k].id, food_name |-> recs[k].name]]

\* if limit > 50: limit = 50
CapLimit_none(limit) == limit
CapLimit(limit) == IF limit > 50 THEN 50 ELSE limit

\* data[key][:limit//2] when key is in data, else nothing
Bucket(present, recs, limit) ==
    IF present THEN SliceTo(recs, limit \div 2) ELSE <<>>

Begin_search_foods(a) ==
    Pending(NixCall("GET", "/search/instant", a.query, 0), NoLocals)

Resume_search_foods(a, l, o) ==
    LET exc == ReplyRaises(o)
        limit == CapLimit(a.limit)
    IN IF exc # "none" THEN Finished(Handle("search_foods", exc, o))
       ELSE Finished(JsonDoc(
              [query |-> a.query,
               common_foods |->
                   FoodSummary(Bucket(o.body.key, o.body.records, limit)),
               branded_foods |->
                   FoodSummary(Bucket(o.body.key2, o.body.records2, limit))]))

Begin_get_food_nutrients(a) ==
    LET query == FoodQuery(a.food_name, a.quantity, a.unit) IN
    Pending(NixCall("POST", "/natural/nutrients", query, 0),
            [NoLocals EXCEPT !.query = query])

Resume_get_food_nutrients(a, l, o) ==
    LET exc == ReplyRaises(o) IN
    IF exc # "none" THEN Finished(Handle("get_food_nutrients", exc, o))
    ELSE IF Missing(o)
    THEN Finished(NotFound("No nutritional information found for", l.query))
    ELSE IF o.body.records[1].fld = "null"
    THEN Finished(Handle("get_food_nutrients", "AttributeError", o))
    ELSE Finished(JsonDoc([food_name |-> o.body.records[1].name,
                           id |-> o.body.records[1].id]))

\* the fixed text of compare_foods when a lookup holds no food
CompareNotFound ==
    Value("text",
          "Could not find nutritional information for one or both foods",
          <<>>, 0, NoBody, <<>>, <<>>, "", NoPayload)

\* not data.get("foods")
NoFoods(o) == ~o.body.key \/ o.body.records = <<>>

Begin_compare_foods(a) ==
    LET query1 == FoodQuery(a.food1, a.quantity, a.unit) IN
    Pending(NixCall("POST", "/natural/nutrients", query1, 0),
            [NoLocals EXCEPT !.k = 1, !.query = query1])

\* the six fields compare_foods tracks
compare_keys ==
    << [key |-> "calories", value |-> "nf_calories"],
       [key |-> "protein",  value |-> "nf_protein"],
       [key |-> "carbs",    value |-> "nf_total_carbohydrate"],
       [key |-> "fat",      value |-> "nf_total_fat"],
       [key |-> "fiber",    value |-> "nf_dietary_fiber"],
       [key |-> "sodium",   value |-> "nf_sodium"] >>

\* the "food1" / "food2" entry of the comparison
CompareEntry(food) ==
    [k \in 1..Len(compare_keys) |->
        [key |-> compare_keys[k].key,
         value |-> Nutrient(food, compare_keys[k].value)]]

\* the "differences" entry: food2 minus food1
Differences_reversed(food1_data, food2_data) ==
    [k \in 1..Len(compare_keys) |->
        [key |-> compare_keys[k].key,
         value |-> Nutrient(food1_data, compare_keys[k].value)
                   - Nutrient(food2_data, compare_keys[k].value)]]
Differences(food1_data, food2_data) ==
    [k \in 1..Len(compare_keys) |->
        [key |-> compare_keys[k].key,
         value |-> Nutrient(food2_data, compare_keys[k].value)
                   - Nutrient(food1_data, compare_keys[k].value)]]

\* the segment after both posts: the two raise_for_status, the decoding
\* and the comparison
CompareReplies(a, query1, r1, r2) ==
    LET query2 == FoodQuery(a.food2, a.quantity, a.unit) IN
    IF RaiseForStatus(r1) # "none"
    THEN Handle("compare_foods", "HTTPStatusError", r1)
    ELSE IF RaiseForStatus(r2) # "none"
    THEN Handle("compare_foods", "HTTPStatusError", r2)
    ELSE IF JsonRaises(r1) # "none"
    THEN Handle("compare_foods", JsonRaises(r1), r1)
    ELSE IF JsonRaises(r2) # "none"
    THEN Handle("compare_foods", JsonRaises(r2), r2)
    ELSE IF GetRaises(r1) # "none"
    THEN Handle("compare_foods", GetRaises(r1), r1)
    ELSE IF NoFoods(r1) THEN CompareNotFound
    ELSE IF GetRaises(r2) # "none"
    THEN Handle("compare_foods", GetRaises(r2), r2)
    ELSE IF NoFoods(r2) THEN CompareNotFound
    ELSE IF r1.body.records[1].fld = "null" \/ r2.body.records[1].fld = "null"
    THEN Handle("compare_foods", "TypeError", r2)
    ELSE JsonDoc([comparison_query |-> query1 \o <<"vs">> \o query2,
                  food1 |-> CompareEntry(r1.body.records[1]),
                  food2 |-> CompareEntry(r2.body.records[1]),
                  differences |-> Differences(r1.body.records[1],
                                              r2.body.records[1])])

\* response1 is kept and the second post is issued; its status is only
\* checked after both posts
AfterFirstPost(a, l, o) ==
    Pending(NixCall("POST", "/natural/nutrients",
                    FoodQuery(a.food2, a.quantity, a.unit), 0),
            [l EXCEPT !.k = 2, !.response1 = o])

Resume_compare_foods(a, l, o) ==
    IF AwaitRaises(o) # "none"
    THEN Finished(Handle("compare_foods", AwaitRaises(o), o))
    ELSE IF l.k = 1 THEN AfterFirstPost(a, l, o)
    ELSE Finished(CompareReplies(a, l.query, l.response1, o))

\* ", ".join(foods_list)
RECURSIVE JoinComma(_)
JoinComma(list) ==
    IF list = <<>> THEN <<>>
    ELSE IF Len(list) = 1 THEN list[1]
    ELSE list[1] \o <<",">> \o JoinComma(Tail(list))

\* totals[...] += food.get(key, 0) over data["foods"]
RECURSIVE Total(_, _)
Total(foods, key) ==
    IF foods = <<>> THEN 0
    ELSE Nutrient(Head(foods), key) + Total(Tail(foods), key)

\* round((grams * kcal_per_gram / total_calories) * 100, 1), in tenths
Percent(grams, kcal_per_gram, total_calories) ==
    Round(grams * kcal_per_gram * 1000, total_calories)

\* macro_percentages
MacroPercentages_fat4(foods) ==
    LET total_calories == Total(foods, "nf_calories") IN
    IF total_calories > 0
    THEN << [key |-> "protein_percent",
             value |-> Percent(Total(foods, "nf_protein"), 4, total_calories)],
            [key |-> "carbs_percent",
             value |-> Percent(Total(foods, "nf_total_carbohydrate"), 4,
                               total_calories)],
            [key |-> "fat_percent",
             value |-> Percent(Total(foods, "nf_total_fat"), 4,
                               total_calories)] >>
    ELSE <<>>
MacroPercentages(foods) ==
    LET total_calories == Total(foods, "nf_calories") IN
    IF total_calories > 0
    THEN << [key |-> "protein_percent",
             value |-> Percent(Total(foods, "nf_protein"), 4, total_calories)],
            [key |-> "carbs_percent",
             value |-> Percent(Total(foods, "nf_total_carbohydrate"), 4,
                               total_calories)],
            [key |-> "fat_percent",
             value |-> Percent(Total(foods, "nf_total_fat"), 9,
                               total_calories)] >>
    ELSE <<>>

Begin_analyze_meal(a) ==
    LET meal_query == JoinComma(a.foods_list) IN
    Pending(NixCall("POST", "/natural/nutrients", meal_query, 0),
            [NoLocals EXCEPT !.query = meal_query])

Resume_analyze_meal(a, l, o) ==
    LET exc == ReplyRaises(o) IN
    IF exc # "none" THEN Finished(Handle("analyze_meal", exc, o))
    ELSE IF Missing(o)
    THEN Finished(NotFound("No nutritional information found for meal",
                           l.query))
    ELSE IF AnyNull(o.body.records)
    THEN Finished(Handle("analyze_meal", "TypeError", o))
    ELSE Finished(JsonDoc(
           [meal_name |-> a.meal_name,
            foods_analyzed |-> Len(o.body.records),
            total_calories |-> Round(Total(o.body.records, "nf_calories"), 10),
            macronutrient_distribution |-> MacroPercentages(o.body.records)]))

\* the query of calculate_exercise_calories
ExerciseQuery(exercise_name, duration_min) ==
    IF duration_min # 30
    THEN <<IntStr(duration_min), "minutes">> \o exercise_name
    ELSE exercise_name

Begin_calculate_exercise_calories(a) ==
    LET query == ExerciseQuery(a.exercise_name, a.duration_min) IN
    Pending(NixCall("POST", "/natural/exercise", query, a.weight_kg),
            [NoLocals EXCEPT !.query = query])

Resume_calculate_exercise_calories(a, l, o) ==
    LET exc == ReplyRaises(o) IN
    IF exc # "none"
    THEN Finished(Handle("calculate_exercise_calories", exc, o))
    ELSE IF Missing(o)
    THEN Finished(NotFound("No exercise information found for", l.query))
    ELSE IF AnyNull(o.body.records)
    THEN Finished(Handle("calculate_exercise_calories", "TypeError", o))
    ELSE Finished(JsonDoc([query |-> l.query,
                           exercises |-> Len(o.body.records)]))

(***************************************************************************)
(* Local arithmetic.  Floats are integers in hundredths.                   *)
(***************************************************************************)
s_male        == <<"m","a","l","e">>
s_Male        == <<"M","a","l","e">>
s_female      == <<"f","e","m","a","l","e">>
s_sedentary   == <<"s","e","d","e","n","t","a","r","y">>
s_light       == <<"l","i","g","h","t">>
s_moderate    == <<"m","o","d","e","r","a","t","e">>
s_active      == <<"a","c","t","i","v","e">>
s_very_active == <<"v","e","r","y","_","a","c","t","i","v","e">>
s_SEDENTARY   == <<"S","E","D","E","N","T","A","R","Y">>
s_Active      == <<"A","c","t","i","v","e">>

\* Mifflin-St Jeor, in hundredths of a kcal; weight and height in
\* hundredths, age in years
Bmr_exact(age, gender, weight_kg, height_cm) ==
    IF gender = s_male
    THEN 10 * weight_kg + (625 * height_cm) \div 100 - 500 * age + 500
    ELSE 10 * weight_kg + (625 * height_cm) \div 100 - 500 * age - 16100
Bmr(age, gender, weight_kg, height_cm) ==
    IF Lower(gender) = s_male
    THEN 10 * weight_kg + (625 * height_cm) \div 100 - 500 * age + 500
    ELSE 10 * weight_kg + (625 * height_cm) \div 100 - 500 * age - 16100

\* activity multipliers, in thousandths
activity_multipliers ==
    << [key |-> s_sedentary,   value |-> 1200],
       [key |-> s_light,       value |-> 1375],
       [key |-> s_moderate,    value |-> 1550],
       [key |-> s_active,      value |-> 1725],
       [key |-> s_very_active, value |-> 1900] >>

Multiplier_flat(activity_level) == 1550
Multiplier(activity_level) ==
    DictGet(activity_multipliers, Lower(activity_level), 1550)

\* bmr * multiplier, in units of 1/100000 kcal
MaintenanceCalories(a) ==
    Bmr(a.age, a.gender, a.weight_kg, a.height_cm) * Multiplier(a.activity_level)

\* x / y in the result dict: raises when y is 0.0
DivisionRaises(y) == IF y = 0 THEN "ZeroDivisionError" ELSE "none"

Begin_calculate_daily_needs(a) ==
    LET daily_calories == MaintenanceCalories(a)
        exc == DivisionRaises(daily_calories)
    IN IF exc # "none"
       THEN Finished(Handle("calculate_daily_needs", exc, NoOutcome))
       ELSE Finished(JsonDoc(
              [bmr |-> Round(Bmr(a.age, a.gender, a.weight_kg,
                                 a.height_cm), 10),
               daily_caloric_needs |-> Round(daily_calories, 100000)]))

s_cardio   == <<"c","a","r","d","i","o">>
s_Cardio   == <<"C","a","r","d","i","o">>
s_CARDIO   == <<"C","A","R","D","I","O">>
s_strength == <<"s","t","r","e","n","g","t","h">>
s_mixed    == <<"m","i","x","e","d">>
s_hiit     == <<"h","i","i","t">>

\* met_values, in tenths
met_values ==
    << [key |-> s_strength, value |-> 60], [key |-> s_cardio, value |-> 80],
       [key |-> s_mixed, value |-> 70], [key |-> s_hiit, value |-> 100] >>

\* pre_workout_calories and post_workout_calories
WorkoutCalories(goal) ==
    IF goal = "lose_weight" THEN [pre |-> 100, post |-> 150]
    ELSE IF goal = "gain_muscle" THEN [pre |-> 200, post |-> 300]
    ELSE IF goal = "endurance" THEN [pre |-> 250, post |-> 200]
    ELSE [pre |-> 150, post |-> 200]

\* the "meal" of each entry of pre_workout_options and post_workout_options
pre_workout_options ==
    << [key |-> s_strength,
        value |-> <<"Banana with almond butter", "Oatmeal with berries">>],
       [key |-> s_cardio,
        value |-> <<"Toast with jam", "Greek yogurt with fruit">>] >>

post_workout_options ==
    << [key |-> s_strength,
        value |-> <<"Protein shake with banana", "Chicken and rice bowl">>],
       [key |-> s_cardio,
        value |-> <<"Chocolate milk", "Tuna sandwich">>] >>

\* options.get(workout_type.lower(), options["strength"])
OptionsKey_exact(workout_type) == workout_type
OptionsKey(workout_type) == Lower(workout_type)

MealOptions(options, workout_type) ==
    DictGet(options, OptionsKey(workout_type),
            DictGet(options, s_strength, <<>>))

Begin_suggest_pre_post_workout_meals(a) ==
    LET met == DictGet(met_values, Lower(a.workout_type), 70)
        \* met * weight_kg * (duration_min / 60), in 1/60000 kcal
        calories_burned == met * a.weight_kg * a.duration_min
    IN Finished(JsonDoc(
         [type |-> a.workout_type, goal |-> a.goal,
          duration_minutes |-> a.duration_min,
          estimated_calories_burned |-> Round(calories_burned, 60000),
          pre_target_calories |-> WorkoutCalories(a.goal).pre,
          post_target_calories |-> WorkoutCalories(a.goal).post,
          pre_options |-> MealOptions(pre_workout_options, a.workout_type),
          post_options |-> MealOptions(post_workout_options,
                                       a.workout_type)]))

\* abs(x)
Abs(x) == IF x < 0 THEN -x ELSE x

\* current_weight - target_weight, in hundredths of a kg
WeightDifference(a) == a.current_weight - a.target_weight

\* progress_status
ProgressStatus(a) ==
    LET weight_difference == WeightDifference(a) IN
    IF a.goal = "lose_weight"
    THEN IF Abs(weight_difference) > 0 THEN "On track" ELSE "Target reached"
    ELSE IF a.goal = "gain_muscle"
    THEN IF weight_difference < 0 THEN "On track" ELSE "Target reached"
    ELSE IF Abs(weight_difference) <= 100 THEN "Maintaining"
    ELSE "Adjustment needed"

\* weeks_to_goal: ideal_weekly_loss is 0.5, ideal_weekly_gain is 0.25
WeeksToGoal(a) ==
    LET weight_difference == WeightDifference(a) IN
    IF a.goal = "lose_weight"
    THEN IF weight_difference > 0
         THEN Max(1, Round(2 * weight_difference, 100)) ELSE 0
    ELSE IF a.goal = "gain_muscle"
    THEN IF weight_difference < 0
         THEN Max(1, Round(4 * Abs(weight_difference), 100)) ELSE 0
    ELSE 0

recommended_workouts == 4

\* (weekly_workouts_completed / recommended_workouts) * 100, in percent
WorkoutProgress(a) ==
    (a.weekly_workouts_completed * 100) \div recommended_workouts

WorkoutStatus_loose(a) ==
    IF WorkoutProgress(a) >= 100 THEN "Excellent - exceeded target"
    ELSE IF WorkoutProgress(a) >= 50 THEN "Good - on track"
    ELSE IF WorkoutProgress(a) >= 25 THEN "Fair - room for improvement"
    ELSE "Poor - need to increase frequency"
WorkoutStatus(a) ==
    IF WorkoutProgress(a) >= 100 THEN "Excellent - exceeded target"
    ELSE IF WorkoutProgress(a) >= 75 THEN "Good - on track"
    ELSE IF WorkoutProgress(a) >= 50 THEN "Fair - room for improvement"
    ELSE "Poor - need to increase frequency"

\* the recommendations list, in the order it is appended to
Recommendations_below3(a) ==
    (IF a.weekly_workouts_completed < 3
     THEN <<"Increase workout frequency to reach your goals faster">>
     ELSE <<>>)
    \o (IF a.goal = "lose_weight" /\ WeightDifference(a) > 0
        THEN <<"Consider reducing daily calories by 100-200 or increasing cardio">>
        ELSE IF a.goal = "gain_muscle" /\ WeightDifference(a) < -100
        THEN <<"You may be gaining weight too quickly - ensure it's muscle, not fat">>
        ELSE <<>>)
    \o (IF WorkoutProgress(a) < 75
        THEN <<"Try to maintain consistency with your workout schedule">>
        ELSE <<>>)
Recommendations(a) ==
    (IF a.weekly_workouts_completed < recommended_workouts
     THEN <<"Increase workout frequency to reach your goals faster">>
     ELSE <<>>)
    \o (IF a.goal = "lose_weight" /\ WeightDifference(a) > 0
        THEN <<"Consider reducing daily calories by 100-200 or increasing cardio">>
        ELSE IF a.goal = "gain_muscle" /\ WeightDifference(a) < -100
        THEN <<"You may be gaining weight too quickly - ensure it's muscle, not fat">>
        ELSE <<>>)
    \o (IF WorkoutProgress(a) < 75
        THEN <<"Try to maintain consistency with your workout schedule">>
        ELSE <<>>)

\* (datetime.now() + timedelta(weeks=weeks_to_goal)).strftime("%Y-%m-%d"),
\* or the sentinel
TargetDate_never(weeks_to_goal) ==
    [text |-> "%Y-%m-%d", weeks_from_now |-> weeks_to_goal]
TargetDate(weeks_to_goal) ==
    IF weeks_to_goal > 0
    THEN [text |-> "%Y-%m-%d", weeks_from_now |-> weeks_to_goal]
    ELSE [text |-> "Target achieved", weeks_from_now |-> 0]

Begin_track_weekly_progress(a) ==
    Finished(JsonDoc(
        [goal |-> a.goal,
         weight_difference_kg |-> Round(WeightDifference(a), 10),
         progress_status |-> ProgressStatus(a),
         workouts_completed |-> a.weekly_workouts_completed,
         workouts_recommended |-> recommended_workouts,
         completion_percentage |-> Round(WorkoutProgress(a) * 100, 10),
         workout_status |-> WorkoutStatus(a),
         estimated_weeks_to_goal |->
             IF WeeksToGoal(a) > 0 THEN WeeksToGoal(a) ELSE 0,
         target_date |-> TargetDate(WeeksToGoal(a)),
         recommendations |-> Recommendations(a)]))

(***************************************************************************)
(* create_fitness_plan.                                                    *)
(***************************************************************************)
\* muscle_groups, with muscle_ids[0] of each (plan_groups_extra: the same
\* with a sixth group)
plan_groups_extra ==
    << [key |-> "chest",     value |-> 4],
       [key |-> "back",      value |-> 12],
       [key |-> "legs",      value |-> 10],
       [key |-> "shoulders", value |-> 2],
       [key |-> "arms",      value |-> 1],
       [key |-> "core",      value |-> 14] >>
plan_groups ==
    << [key |-> "chest",     value |-> 4],
       [key |-> "back",      value |-> 12],
       [key |-> "legs",      value |-> 10],
       [key |-> "shoulders", value |-> 2],
       [key |-> "arms",      value |-> 1] >>

\* goal_adjustments, in kcal
goal_adjustments ==
    << [key |-> "lose_weight",          value |-> -500],
       [key |-> "gain_muscle",          value |-> 300],
       [key |-> "maintain",             value |-> 0],
       [key |-> "athletic_performance", value |-> 200] >>

\* maintenance_calories + goal_adjustments.get(goal, 0), in 1/100000 kcal
TargetCalories(a) ==
    MaintenanceCalories(a) + 100000 * DictGet(goal_adjustments, a.goal, 0)

\* protein_per_kg, in tenths of a gram
ProteinPerKg_flat(goal) == 10
ProteinPerKg(goal) ==
    IF goal = "gain_muscle" THEN 16
    ELSE IF goal = "lose_weight" THEN 12
    ELSE 10

\* weight_kg * protein_per_kg, in thousandths of a gram
ProteinGrams(a) == a.weight_kg * ProteinPerKg(a.goal)

\* the workout_structure of the bare except clause
FallbackStructure ==
    << [key |-> "chest",     value |-> <<[id |-> 0, name |-> <<"Push-ups">>]>>],
       [key |-> "back",      value |-> <<[id |-> 0, name |-> <<"Pull-ups">>]>>],
       [key |-> "legs",      value |-> <<[id |-> 0, name |-> <<"Squats">>]>>],
       [key |-> "shoulders", value |-> <<[id |-> 0, name |-> <<"Pike Push-ups">>]>>],
       [key |-> "arms",      value |-> <<[id |-> 0, name |-> <<"Tricep Dips">>]>>] >>

\* the dicts built from data.get("results", [])[:3]
PlanExercises(recs) ==
    [k \in 1..Min(3, Len(recs)) |-> [id |-> recs[k].id, name |-> recs[k].name]]

PlanRequest(k) ==
    WgerGet("/exercise/", "muscles", plan_groups[k].value, 3, 2, <<>>)

\* one day of the split
Day(key, focus, exercises) ==
    [key |-> key, value |-> [focus |-> focus, exercises |-> exercises]]

\* workout_structure.get("arms", [])[1:]
BackArms_all(arms) == arms
BackArms(arms) == SliceFrom(arms, 1)

\* the weekly split
WorkoutSplit(ws, workout_days) ==
    LET chest == DictGet(ws, "chest", <<>>)
        back == DictGet(ws, "back", <<>>)
        legs == DictGet(ws, "legs", <<>>)
        shoulders == DictGet(ws, "shoulders", <<>>)
        arms == DictGet(ws, "arms", <<>>)
        cardio == <<[id |-> 0, name |-> <<"30min cardio">>]>>
    IN IF workout_days >= 4
       THEN << Day("day_1", "Chest & Triceps", chest \o SliceTo(arms, 2)),
               Day("day_2", "Back & Biceps", back \o BackArms(arms)),
               Day("day_3", "Legs", legs),
               Day("day_4", "Shoulders & Core", shoulders) >>
            \o (IF workout_days >= 5
                THEN << Day("day_5", "Full Body / Cardio", cardio) >>
                ELSE <<>>)
       ELSE << Day("day_1", "Upper Body", chest \o back),
               Day("day_2", "Lower Body", legs),
               Day("day_3", "Full Body", shoulders \o arms) >>

\* the code after the exercise-fetch block
FinishPlan(a, ws) ==
    LET exc == DivisionRaises(TargetCalories(a)) IN
    IF exc # "none" THEN Finished(Handle("create_fitness_plan", exc, NoOutcome))
    ELSE Finished(JsonDoc(
           [bmr |-> Round(Bmr(a.age, a.gender, a.weight_kg, a.height_cm),
                          100),
            maintenance |-> Round(MaintenanceCalories(a), 100000),
            target |-> Round(TargetCalories(a), 100000),
            adjustment |-> DictGet(goal_adjustments, a.goal, 0),
            protein |-> Round(ProteinGrams(a), 100),
            weekly_split |-> WorkoutSplit(ws, a.workout_days)]))

\* workout_structure after the bare except clause
Recovered_partial(workout_structure) == workout_structure
Recovered(workout_structure) == FallbackStructure

Begin_create_fitness_plan(a) ==
    Pending(PlanRequest(1), [NoLocals EXCEPT !.k = 1])

\* what one answered fetch does inside the inner try
PlanFetchRaises_strict(o) ==
    IF AwaitRaises(o) # "none" THEN AwaitRaises(o)
    ELSE IF o.status # 200 THEN "HTTPStatusError"
    ELSE FirstRaised(<<JsonRaises(o), GetRaises(o),
                       DerefRaises(SliceTo(GetList(o), 3), "AttributeError")>>)
PlanFetchRaises(o) ==
    IF AwaitRaises(o) # "none" THEN AwaitRaises(o)
    ELSE IF o.status # 200 THEN "none"
    ELSE FirstRaised(<<JsonRaises(o), GetRaises(o),
                       DerefRaises(SliceTo(GetList(o), 3), "AttributeError")>>)

Resume_create_fitness_plan(a, l, o) ==
    LET ws == IF o.status = 200
              THEN l.workout_structure \o
                   << [key |-> plan_groups[l.k].key,
                       value |-> PlanExercises(GetList(o))] >>
              ELSE l.workout_structure
    IN IF PlanFetchRaises(o) # "none" THEN FinishPlan(a, Recovered(l.workout_structure))
       ELSE IF l.k < Len(plan_groups)
       THEN Pending(PlanRequest(l.k + 1),
                    [l EXCEPT !.k = l.k + 1, !.workout_structure = ws])
       ELSE FinishPlan(a, ws)

(***************************************************************************)
(* Dispatch: the first segment of a tool, and the segment that follows an  *)
(* upstream outcome.                                                       *)
(***************************************************************************)
Begin(t, a) ==
    CASE t = "search_foods" -> Begin_search_foods(a)
      [] t = "get_food_nutrients" -> Begin_get_food_nutrients(a)
      [] t = "compare_foods" -> Begin_compare_foods(a)
      [] t = "analyze_meal" -> Begin_analyze_meal(a)
      [] t = "calculate_daily_needs" -> Begin_calculate_daily_needs(a)
      [] t = "search_exercises" -> Begin_search_exercises(a)
      [] t = "get_exercises_by_muscle" -> Begin_get_exercises_by_muscle(a)
      [] t = "get_equipment_exercises" -> Begin_get_equipment_exercises(a)
      [] t = "get_workout_templates" -> Begin_get_workout_templates(a)
      [] t = "calculate_exercise_calories" ->
             Begin_calculate_exercise_calories(a)
      [] t = "create_fitness_plan" -> Begin_create_fitness_plan(a)
      [] t = "suggest_pre_post_workout_meals" ->
             Begin_suggest_pre_post_workout_meals(a)
      [] t = "track_weekly_progress" -> Begin_track_weekly_progress(a)

Resume(t, a, l, o) ==
    CASE t = "search_foods" -> Resume_search_foods(a, l, o)
      [] t = "get_food_nutrients" -> Resume_get_food_nutrients(a, l, o)
      [] t = "compare_foods" -> Resume_compare_foods(a, l, o)
      [] t = "analyze_meal" -> Resume_analyze_meal(a, l, o)
      [] t = "search_exercises" -> Resume_search_exercises(a, l, o)
      [] t = "get_exercises_by_muscle" ->
             Resume_get_exercises_by_muscle(a, l, o)
      [] t = "get_equipment_exercises" ->
             Resume_get_equipment_exercises(a, l, o)
      [] t = "get_workout_templates" -> Resume_get_workout_templates(a, l, o)
      [] t = "calculate_exercise_calories" ->
             Resume_calculate_exercise_calories(a, l, o)
      [] t = "create_fitness_plan" -> Resume_create_fitness_plan(a, l, o)

(***************************************************************************)
(* The arguments tried.                                                    *)
(***************************************************************************)
Call(t, a) == [tool |-> t, args |-> a]

Limits == (-1)..MaxLimit

MuscleInputs ==
    {s_chest, s_back, s_shoulders, s_arms, s_legs, s_abs, s_core,
     s_Chest, s_LEGS, s_bogus, s_chests, s_empty}

Portions == {<<100, "serving">>, <<200, "serving">>, <<100, "cup">>}

Profile(age, gender, weight_kg, height_cm, activity_level) ==
    [age |-> age, gender |-> gender, weight_kg |-> weight_kg,
     height_cm |-> height_cm, activity_level |-> activity_level]

Profiles ==
    {Profile(30, g, 7000, 17500, act) :
        g \in {s_male, s_Male, s_female}, act \in {s_moderate, s_bogus}}
    \cup {Profile(1, s_male, 0, 0, s_moderate)}

PlanArgs(p, goal, workout_days) ==
    [age |-> p.age, gender |-> p.gender, weight_kg |-> p.weight_kg,
     height_cm |-> p.height_cm, activity_level |-> p.activity_level,
     goal |-> goal, workout_days |-> workout_days, equipment |-> "gym"]

Calls ==
    {Call("search_foods", [query |-> <<"apple">>, limit |-> n]) :
        n \in Limits \cup {10, 51, 52}}
    \cup {Call("get_food_nutrients",
               [food_name |-> <<"apple">>, quantity |-> q[1], unit |-> q[2]]) :
            q \in Portions}
    \cup {Call("compare_foods",
               [food1 |-> <<"apple">>, food2 |-> <<"banana">>,
                quantity |-> q[1], unit |-> q[2]]) : q \in Portions}
    \cup {Call("analyze_meal", [foods_list |-> fl, meal_name |-> "Custom Meal"]) :
            fl \in {<<>>, << <<"rice">> >>, << <<"1", "cup", "rice">>, <<"egg">> >>}}
    \cup {Call("calculate_daily_needs", p) : p \in Profiles}
    \cup {Call("search_exercises", [query |-> <<"squat">>, limit |-> n]) :
            n \in {0, 20}}
    \cup {Call("get_exercises_by_muscle", [muscle_group |-> g, limit |-> n]) :
            g \in MuscleInputs, n \in Limits \cup {15}}
    \cup {Call("get_equipment_exercises", [equipment_name |-> e, limit |-> n]) :
            e \in {s_barbell, s_bar, s_dumbbell, s_Kettlebell, s_rope, s_empty},
            n \in {0, 15}}
    \cup {Call("get_workout_templates", [difficulty |-> d]) :
            d \in {"intermediate", "beginner"}}
    \cup {Call("calculate_exercise_calories",
               [exercise_name |-> <<"running">>, duration_min |-> d,
                weight_kg |-> w]) : d \in {30, 45}, w \in {0, 7000}}
    \cup {Call("create_fitness_plan", PlanArgs(p[1], p[2], p[3])) :
            p \in {<<Profile(30, s_male, 7000, 17500, s_moderate),
                     "lose_weight", 4>>,
                   <<Profile(30, s_female, 7000, 17500, s_moderate),
                     "maintain", 3>>,
                   <<Profile(1, s_male, 0, 0, s_moderate), "maintain", 5>>}}
    \cup {Call("suggest_pre_post_workout_meals",
               [workout_type |-> w, duration_min |-> 60, weight_kg |-> 7000,
                goal |-> "maintain"]) :
            w \in {s_cardio, s_hiit}}
    \cup {Call("track_weekly_progress",
               [current_weight |-> 7850, target_weight |-> 7500,
                weekly_workouts_completed |-> n, goal |-> "lose_weight"]) :
            n \in {3, 4}}

\* the calls and outcomes tried when several invocations interleave
FewCalls ==
    {Call("compare_foods",
          [food1 |-> <<"apple">>, food2 |-> <<"banana">>,
           quantity |-> 100, unit |-> "serving"]),
     Call("get_exercises_by_muscle", [muscle_group |-> s_back, limit |-> 3]),
     Call("get_exercises_by_muscle", [muscle_group |-> s_chest, limit |-> 1]),
     Call("get_equipment_exercises",
          [equipment_name |-> s_barbell, limit |-> 15]),
     Call("calculate_daily_needs",
          Profile(30, s_male, 7000, 17500, s_moderate))}

FewOutcomes(req) ==
    {Transport,
     Response(404, Body("text", FALSE, <<>>, FALSE, <<>>)),
     Response(200, Body("object", TRUE, UpstreamRecords(req, MaxRecs),
                        FALSE, <<>>))}

(***************************************************************************)
(* State machine.                                                          *)
(***************************************************************************)
NoArgs == [none |-> TRUE]

\* the frame of invocation i: its own locals
Frame_shared(i) == locals[1]
Frame(i) == locals[i]

InitOver(slots, layouts) ==
    /\ env \in [NUTRITIONIX_APP_ID : {"absent", "empty", "id-value"},
                NUTRITIONIX_APP_KEY : {"absent", "empty", "key-value"}]
    /\ layout \in layouts
    /\ boot = "start"
    /\ config = Unloaded
    /\ pc = [i \in slots |-> "idle"]
    /\ tool = [i \in slots |-> "none"]
    /\ args = [i \in slots |-> NoArgs]
    /\ locals = [i \in slots |-> NoLocals]
    /\ pending = [i \in slots |-> NoRequest]
    /\ calls = [i \in slots |-> <<>>]
    /\ fates = [i \in slots |-> <<>>]
    /\ log = [i \in slots |-> <<>>]
    /\ result = [i \in slots |-> NoResult]

\* the modules load: the globals are assigned, then the guard of
\* mcp_server.py runs (directly, or through "from mcp_server import mcp")
Load ==
    /\ boot = "start"
    /\ config' = LoadedConfig(env)
    /\ boot' = IF GuardRuns(layout) /\ CredentialCheckRaises(LoadedConfig(env))
               THEN "failed" ELSE "serving"
    /\ UNCHANGED <<env, layout, pc, tool, args, locals, pending, calls,
                   fates, log, result>>

\* the host calls a tool; its code runs up to the first await or return
Invoke(i, universe) ==
    /\ boot = "serving"
    /\ pc[i] = "idle"
    /\ \E c \in universe :
         \E st \in {Begin(c.tool, c.args)} :
         /\ pc' = [pc EXCEPT ![i] = st.pc]
         /\ tool' = [tool EXCEPT ![i] = c.tool]
         /\ args' = [args EXCEPT ![i] = c.args]
         /\ locals' = [locals EXCEPT ![i] = st.locals]
         /\ pending' = [pending EXCEPT ![i] = st.request]
         /\ calls' = [calls EXCEPT ![i] =
                         IF st.request.provider # "none"
                         THEN <<st.request>> ELSE <<>>]
         /\ result' = [result EXCEPT ![i] = st.result]
    /\ fates' = [fates EXCEPT ![i] = <<>>]
    /\ log' = [log EXCEPT ![i] = <<>>]
    /\ UNCHANGED <<env, layout, boot, config>>

\* the request in flight ends; the code runs up to the next await or return
Deliver(i, outcomes, keeps) ==
    /\ pc[i] = "await"
    /\ pending[i].provider # "none"
    /\ \E o \in outcomes :
         \E st \in {Resume(tool[i], args[i], Frame(i), o)} :
         /\ pc' = [pc EXCEPT ![i] = st.pc]
         /\ locals' = [locals EXCEPT ![i] = st.locals]
         /\ pending' = [pending EXCEPT ![i] = st.request]
         /\ calls' = [calls EXCEPT ![i] =
                         IF st.request.provider # "none"
                         THEN Append(calls[i], st.request) ELSE calls[i]]
         /\ fates' = [fates EXCEPT ![i] = Append(fates[i], Fate(o))]
         /\ log' = [log EXCEPT ![i] =
                       IF keeps THEN Append(log[i], o) ELSE log[i]]
         /\ result' = [result EXCEPT ![i] = st.result]
    /\ UNCHANGED <<env, layout, boot, config, tool, args>>

\* the host relays the returned string; the coroutine is gone
Return(i) ==
    /\ pc[i] = "done"
    /\ pc' = [pc EXCEPT ![i] = "idle"]
    /\ tool' = [tool EXCEPT ![i] = "none"]
    /\ args' = [args EXCEPT ![i] = NoArgs]
    /\ locals' = [locals EXCEPT ![i] = NoLocals]
    /\ pending' = [pending EXCEPT ![i] = NoRequest]
    /\ calls' = [calls EXCEPT ![i] = <<>>]
    /\ fates' = [fates EXCEPT ![i] = <<>>]
    /\ log' = [log EXCEPT ![i] = <<>>]
    /\ result' = [result EXCEPT ![i] = NoResult]
    /\ UNCHANGED <<env, layout, boot, config>>

\* the resource fitness://status
get_api_status(c) ==
    JsonDoc([service |-> "Complete Fitness & Nutrition API",
             apis_integrated |->
                 << [name |-> "Nutritionix", base_url |-> c.nutritionix_url,
                     status |-> IF Truthy(c.app_id) /\ Truthy(c.app_key)
                                THEN "connected" ELSE "disconnected"],
                    [name |-> "WGER", base_url |-> c.wger_url,
                     status |-> "connected"] >>])

\* the host reads the status resource: the function runs to its return
Read(i) ==
    /\ boot = "serving"
    /\ pc[i] = "idle"
    /\ pc' = [pc EXCEPT ![i] = "done"]
    /\ tool' = [tool EXCEPT ![i] = "fitness://status"]
    /\ args' = [args EXCEPT ![i] = NoArgs]
    /\ locals' = [locals EXCEPT ![i] = NoLocals]
    /\ pending' = [pending EXCEPT ![i] = NoRequest]
    /\ calls' = [calls EXCEPT ![i] = <<>>]
    /\ fates' = [fates EXCEPT ![i] = <<>>]
    /\ log' = [log EXCEPT ![i] = <<>>]
    /\ result' = [result EXCEPT ![i] = get_api_status(config)]
    /\ UNCHANGED <<env, layout, boot, config>>

\* one invocation at a time, every tool, every upstream outcome
Init == InitOver({1}, {"single", "modular"})
InvokeTool == Invoke(1, Calls)
\* the outcome history is kept for the tools with at most two calls
KeepsLog(t) == t \in NutritionixTools
UpstreamAnswers == Deliver(1, Outcomes(pending[1]), KeepsLog(tool[1]))
ReturnToCaller == Return(1)
Next == Load \/ InvokeTool \/ UpstreamAnswers \/ ReturnToCaller
Spec == Init /\ [][Next]_vars

\* several invocations in flight, interleaving at their awaits
Slots == 1..NumInv
InitConc == InitOver(Slots, {"single", "modular"})
InvokeAny == \E i \in Slots : Invoke(i, FewCalls)
KeepsAll(t) == TRUE
AnswerAny ==
    \E i \in Slots : Deliver(i, FewOutcomes(pending[i]), KeepsAll(tool[i]))
ReturnAny == \E i \in Slots : Return(i)
NextConc == Load \/ InvokeAny \/ AnswerAny \/ ReturnAny
ConcSpec == InitConc /\ [][NextConc]_vars

\* every request in flight eventually ends, one way or the other
LiveSpec == Spec /\ WF_vars(UpstreamAnswers)

\* the arithmetic of the tools over a wide range of arguments, with the
\* upstream either failing in transport or answering 200 with records
Ages == {1, 30, 65}
Genders == {s_male, s_Male, s_female, s_bogus}
Weights == {0, 7000, 8250}
Heights == {0, 16000, 17500}
Activities ==
    {s_sedentary, s_light, s_moderate, s_active, s_very_active,
     s_SEDENTARY, s_Active, s_bogus}
Goals ==
    {"lose_weight", "gain_muscle", "maintain", "athletic_performance",
     "Lose_Weight", "bogus"}

WorkoutTypes ==
    {s_cardio, s_Cardio, s_CARDIO, s_strength, s_mixed, s_hiit, s_bogus,
     s_empty}

ArithCalls ==
    {Call("calculate_daily_needs", Profile(age, g, w, h, act)) :
        age \in Ages, g \in Genders, w \in Weights, h \in Heights,
        act \in Activities}
    \cup {Call("create_fitness_plan",
               PlanArgs(Profile(30, g, w, 17500, act), goal, 4)) :
            g \in Genders, w \in {0, 7000}, act \in Activities,
            goal \in Goals}
    \cup {Call("create_fitness_plan",
               PlanArgs(Profile(1, s_male, 0, 0, s_moderate), goal, 3)) :
            goal \in Goals}
    \cup {Call("track_weekly_progress",
               [current_weight |-> cw, target_weight |-> 7500,
                weekly_workouts_completed |-> n, goal |-> goal]) :
            cw \in {7000, 7480, 7500, 7513, 7600, 7850}, n \in 0..5,
            goal \in {"lose_weight", "gain_muscle", "maintain", "bogus"}}
    \cup {Call("suggest_pre_post_workout_meals",
               [workout_type |-> w, duration_min |-> d, weight_kg |-> 7000,
                goal |-> goal]) :
            w \in WorkoutTypes, d \in {45, 60},
            goal \in {"lose_weight", "gain_muscle", "endurance", "maintain"}}

SureOutcomes(req) ==
    {Transport,
     Response(200, Body("object", TRUE, UpstreamRecords(req, 1),
                        FALSE, <<>>))}

InvokeArith == Invoke(1, ArithCalls)
AnswerArith == Deliver(1, SureOutcomes(pending[1]), FALSE)
NextArith == Load \/ InvokeArith \/ AnswerArith \/ ReturnToCaller
ArithSpec == Init /\ [][NextArith]_vars

\* the nutrient lookups over replies that list any foods of the provider
FoodRecs(req) ==
    {Rec(req.value * 10 + id, UpstreamName(1), "ok") : id \in 1..4}
    \cup {Rec(req.value * 10 + 5, UpstreamName(2), "absent")}

\* the lists of exactly n foods
RECURSIVE FoodListsOf(_, _)
FoodListsOf(req, n) ==
    IF n = 0 THEN {<<>>}
    ELSE {Append(foods, food) :
              foods \in FoodListsOf(req, n - 1), food \in FoodRecs(req)}

FoodLists(req) == UNION {FoodListsOf(req, n) : n \in 1..MaxFoods}

MealOutcomes(req) ==
    {Transport, Response(404, Body("text", FALSE, <<>>, FALSE, <<>>))}
    \cup {Response(200, Body("object", TRUE, foods, FALSE, <<>>)) :
              foods \in FoodLists(req)}

MealCalls ==
    {Call("analyze_meal",
          [foods_list |-> << <<"1", "cup", "rice">>, <<"egg">> >>,
           meal_name |-> "Custom Meal"]),
     Call("compare_foods",
          [food1 |-> <<"apple">>, food2 |-> <<"banana">>,
           quantity |-> 100, unit |-> "serving"])}

InvokeMeal == Invoke(1, MealCalls)
AnswerMeal == Deliver(1, MealOutcomes(pending[1]), TRUE)
NextMeal == Load \/ InvokeMeal \/ AnswerMeal \/ ReturnToCaller
MealSpec == Init /\ [][NextMeal]_vars

(***************************************************************************)
(* create_fitness_plan over the replies that decide its workout structure, *)
(* with the replies kept.                                                  *)
(***************************************************************************)
PlanOutcomes(req) ==
    {Transport,
     Response(404, Body("text", FALSE, <<>>, FALSE, <<>>)),
     Response(201, Body("object", TRUE, UpstreamRecords(req, 3), FALSE, <<>>)),
     Response(200, Body("object", TRUE, UpstreamRecords(req, 3), FALSE, <<>>)),
     Response(200, Body("object", TRUE, UpstreamRecords(req, 1), FALSE, <<>>)),
     Response(200, Body("text", FALSE, <<>>, FALSE, <<>>)),
     Response(200, Body("object", TRUE,
                        <<Rec(req.value * 10 + 9, UpstreamName(1), "null")>>,
                        FALSE, <<>>))}

PlanCalls ==
    {Call("create_fitness_plan",
          PlanArgs(Profile(30, s_male, 7000, 17500, s_moderate),
                   "lose_weight", d)) : d \in {3, 4, 5}}
    \cup {Call("create_fitness_plan",
               PlanArgs(Profile(1, s_male, 0, 0, s_moderate), "maintain", 6))}

InvokePlan == Invoke(1, PlanCalls)
AnswerPlan == Deliver(1, PlanOutcomes(pending[1]), TRUE)
NextPlan == Load \/ InvokePlan \/ AnswerPlan \/ ReturnToCaller
PlanSpec == Init /\ [][NextPlan]_vars

(***************************************************************************)
(* get_workout_templates called twice side by side, so that two           *)
(* invocations with different difficulties can meet the same reply.        *)
(***************************************************************************)
Pair == {1, 2}

TemplateCalls ==
    {Call("get_workout_templates", [difficulty |-> d]) :
        d \in {"beginner", "intermediate", "advanced", "Expert"}}

InitPair == InitOver(Pair, {"single", "modular"})
InvokeTemplates == \E i \in Pair : Invoke(i, TemplateCalls)
AnswerTemplates == \E i \in Pair : Deliver(i, Outcomes(pending[i]), TRUE)
ReturnTemplates == \E i \in Pair : Return(i)
NextTemplates ==
    Load \/ InvokeTemplates \/ AnswerTemplates \/ ReturnTemplates
TemplateSpec == InitPair /\ [][NextTemplates]_vars

(***************************************************************************)
(* get_equipment_exercises over every reply to its two calls, with the     *)
(* replies kept; the equipment list may name two matching entries.         *)
(***************************************************************************)
EquipmentCalls ==
    {Call("get_equipment_exercises", [equipment_name |-> n, limit |-> l]) :
        n \in {s_barbell, s_bar, s_dumbbell, s_Kettlebell, s_rope, s_empty,
               <<"S","Z">>},
        l \in {0, 15}}

EquipmentOutcomes(req) ==
    Outcomes(req)
    \cup (IF req.url[2] = "/equipment/"
          THEN {Response(200, Body("object", TRUE,
                                   <<Rec(id, UpstreamName(1), "ok"),
                                     Rec(13, UpstreamName(2), "ok")>>,
                                   FALSE, <<>>)) : id \in {0, 11}}
          ELSE {})

InvokeEquipment == Invoke(1, EquipmentCalls)
AnswerEquipment == Deliver(1, EquipmentOutcomes(pending[1]), TRUE)
NextEquipment == Load \/ InvokeEquipment \/ AnswerEquipment \/ ReturnToCaller
EquipmentSpec == Init /\ [][NextEquipment]_vars

(***************************************************************************)
(* get_exercises_by_muscle with the replies kept.                          *)
(***************************************************************************)
MuscleCalls ==
    {Call("get_exercises_by_muscle", [muscle_group |-> g, limit |-> l]) :
        g \in {s_chest, s_back, s_arms, s_LEGS, s_core, s_bogus},
        l \in {-1, 0, 1, 3, 5, 15}}

MuscleOutcomes(req) ==
    {Transport,
     Response(404, Body("text", FALSE, <<>>, FALSE, <<>>)),
     Response(200, Body("text", FALSE, <<>>, FALSE, <<>>)),
     Response(201, Body("object", FALSE, <<>>, FALSE, <<>>))}
    \cup {Response(200, Body("object", TRUE, UpstreamRecords(req, n),
                             FALSE, <<>>)) : n \in 0..MaxRecs}

InvokeMuscle == Invoke(1, MuscleCalls)
AnswerMuscle == Deliver(1, MuscleOutcomes(pending[1]), TRUE)
NextMuscle == Load \/ InvokeMuscle \/ AnswerMuscle \/ ReturnToCaller
MuscleSpec == Init /\ [][NextMuscle]_vars

(***************************************************************************)
(* The status resource read while tools run side by side.                  *)
(***************************************************************************)
ReadStatus == \E i \in Pair : Read(i)
InvokeBeside == \E i \in Pair : Invoke(i, FewCalls)
AnswerBeside == \E i \in Pair : Deliver(i, FewOutcomes(pending[i]), TRUE)
ReturnBeside == \E i \in Pair : Return(i)
NextStatus ==
    Load \/ ReadStatus \/ InvokeBeside \/ AnswerBeside \/ ReturnBeside
StatusSpec == InitPair /\ [][NextStatus]_vars

(***************************************************************************)
(* Properties.                                                             *)
(***************************************************************************)
Invocations == DOMAIN pc
Returned(i) == pc[i] = "done"
Running(i) == pc[i] # "idle"

\* C1: every tool invocation hands back a string (a JSON document or a
\* text), whatever the upstream did: no exception leaves a tool.
C1_NoExceptionEscapes ==
    \A i \in Invocations :
        Returned(i) => result[i].kind \in {"json", "text"}

\* an incomplete reply (a JSON null where a number is expected) ended
\* calculate_exercise_calories with an error text
C1_Witness ==
    \E i \in Invocations :
        /\ Returned(i)
        /\ tool[i] = "calculate_exercise_calories"
        /\ result[i].kind = "text"
        /\ result[i].message = "TypeError"

UpstreamTools == NutritionixTools \cup WgerTools

SomeFate(i, f) == \E k \in 1..Len(fates[i]) : fates[i][k].fate = f

\* C2 as stated: in every tool but create_fitness_plan, a non-2xx reply to
\* any upstream call gives "<API Error | WGER API Error>: <status> - <body>"
\* with that reply's status, and a transport failure gives
\* "Error <doing X>: <message>".
C2_StatusErrorText ==
    \A i \in Invocations :
        (Returned(i) /\ tool[i] \in UpstreamTools) =>
            /\ SomeFate(i, "status") =>
                  /\ result[i].kind = "text"
                  /\ result[i].prefix = ApiErrorPrefix(tool[i])
                  /\ result[i].interp = <<"status_code", "text">>
                  /\ \E k \in 1..Len(fates[i]) :
                        /\ fates[i][k].fate = "status"
                        /\ fates[i][k].status = result[i].status
            /\ (SomeFate(i, "transport") /\ ~SomeFate(i, "status")) =>
                  /\ result[i].kind = "text"
                  /\ result[i].prefix = ErrorLabel(tool[i])
                  /\ result[i].interp = <<"str(e)">>

NotFoundTools ==
    {"get_food_nutrients", "compare_foods", "analyze_meal",
     "calculate_exercise_calories"}

\* every reply of the invocation was a well-formed 2xx document and one of
\* them held no record
AnsweredEmpty(i) ==
    /\ Returned(i) /\ tool[i] \in NotFoundTools
    /\ Len(log[i]) = Len(calls[i])
    /\ \A k \in 1..Len(log[i]) : Sound(log[i][k])
    /\ \E k \in 1..Len(log[i]) : Empty(log[i][k])

NotFoundPrefix(t) ==
    CASE t = "get_food_nutrients" -> "No nutritional information found for"
      [] t = "analyze_meal" -> "No nutritional information found for meal"
      [] t = "calculate_exercise_calories" ->
             "No exercise information found for"
      [] t = "compare_foods" ->
             "Could not find nutritional information for one or both foods"

\* the text interpolates the query of one of the requests sent
NamesQuery(i) ==
    /\ result[i].interp = <<"query">>
    /\ \E k \in 1..Len(calls[i]) : calls[i][k].query = result[i].query

\* C3 as stated: when the provider answers successfully without records,
\* each of the four tools hands back a plain text that names the query
\* sent, never an error text or a JSON document.
C3_NotFoundNamesQuery ==
    \A i \in Invocations :
        AnsweredEmpty(i) =>
            /\ result[i].kind = "text"
            /\ result[i].prefix = NotFoundPrefix(tool[i])
            /\ NamesQuery(i)

\* C3 amended: the three single-lookup tools name the query sent;
\* compare_foods hands back a fixed text that names neither query.
C3_NotFoundText ==
    \A i \in Invocations :
        AnsweredEmpty(i) =>
            /\ result[i].kind = "text"
            /\ result[i].prefix = NotFoundPrefix(tool[i])
            /\ IF tool[i] = "compare_foods"
               THEN result[i].interp = <<>> /\ result[i].query = <<>>
               ELSE NamesQuery(i)

\* a prefixed query ("2.0 serving apple") came back empty
C3_Witness ==
    \E i \in Invocations :
        /\ AnsweredEmpty(i)
        /\ tool[i] = "get_food_nutrients"
        /\ Len(result[i].query) = 3

CredentialMissing(e) ==
    \/ e.NUTRITIONIX_APP_ID \in {"absent", "empty"}
    \/ e.NUTRITIONIX_APP_KEY \in {"absent", "empty"}

\* C4: with a credential absent or empty, loading fails, in either layout,
\* and no tool is ever invoked in such a process.
C4_FailFast ==
    /\ (boot # "start" /\ CredentialMissing(env)) => boot = "failed"
    /\ (boot = "serving" \/ \E i \in Invocations : Running(i)) =>
           ~CredentialMissing(env)

\* the modular layout refused to start on an empty application key
C4_Witness ==
    /\ boot = "failed"
    /\ layout = "modular"
    /\ env.NUTRITIONIX_APP_ID = "id-value"
    /\ env.NUTRITIONIX_APP_KEY = "empty"

MultiCallTools ==
    {"compare_foods", "get_exercises_by_muscle", "get_equipment_exercises"}

\* C5 as stated: in the tools with several upstream calls, once a call has
\* failed (non-2xx status or transport failure) no further call is issued.
C5_FailureAborts ==
    \A i \in Invocations :
        (Running(i) /\ tool[i] \in MultiCallTools) =>
            \A k \in 1..Len(fates[i]) :
                fates[i][k].fate # "ok" => Len(calls[i]) = k

\* C6 as stated: no invocation issues more than two upstream calls, and
\* the three local tools issue none.
C6_AtMostTwoCalls ==
    \A i \in Invocations :
        Running(i) =>
            /\ Len(calls[i]) <= 2
            /\ tool[i] \in LocalTools => Len(calls[i]) = 0

\* the most upstream calls a tool issues
CallBudget(t) ==
    IF t \in LocalTools THEN 0
    ELSE IF t = "create_fitness_plan" THEN 5
    ELSE IF t = "get_exercises_by_muscle" THEN 4
    ELSE IF t \in {"compare_foods", "get_equipment_exercises"} THEN 2
    ELSE 1

\* C6 amended: an invocation issues at most five upstream calls: none in
\* the three local tools, at most two in compare_foods and
\* get_equipment_exercises, at most four in get_exercises_by_muscle (one per
\* mapped muscle ID), at most five in create_fitness_plan, and at most one
\* in every other tool.
C6_CallBudget ==
    \A i \in Invocations :
        Running(i) => Len(calls[i]) <= CallBudget(tool[i])

\* a fitness plan was built after five fetches
C6_Witness ==
    \E i \in Invocations :
        /\ Returned(i)
        /\ tool[i] = "create_fitness_plan"
        /\ Len(calls[i]) = 5
        /\ result[i].kind = "json"

RECURSIVE Replay(_, _, _, _)
\* the invocation run alone: the coroutine of tool t on arguments a, fed
\* the upstream outcomes os in order
Replay(t, a, st, os) ==
    IF os = <<>> \/ st.pc # "await" THEN st
    ELSE Replay(t, a, Resume(t, a, st.locals, Head(os)), Tail(os))

Alone(i) == Replay(tool[i], args[i], Begin(tool[i], args[i]), log[i])

\* C7: an invocation interleaved with others returns what it returns when
\* run alone on the same arguments and the same upstream outcomes, and the
\* configuration stays what was loaded at startup.
C7_Independent ==
    /\ \A i \in Invocations :
           Returned(i) =>
               /\ Alone(i).pc = "done"
               /\ result[i] = Alone(i).result
    /\ boot # "start" => config = LoadedConfig(env)

\* one invocation returned after two upstream calls while another one, which
\* has had its first answer, is still waiting for its second
C7_Witness ==
    \E i, j \in Invocations :
        /\ i # j
        /\ Returned(i) /\ Len(log[i]) >= 2
        /\ pc[j] = "await" /\ Len(log[j]) >= 1

\* C8: an invocation waiting for an upstream answer eventually returns,
\* given that every upstream call is eventually answered.
C8_EventuallyReturns ==
    \A i \in {1} : (pc[i] = "await") ~> (pc[i] = "done")

\* an invocation returned after four upstream calls, all answered
C8_Witness ==
    /\ Returned(1)
    /\ Len(calls[1]) = 4
    /\ Len(fates[1]) = 4

ByMuscle(i) == Running(i) /\ tool[i] = "get_exercises_by_muscle"

\* C9: with limit >= 0 the exercises list of get_exercises_by_muscle has at
\* most limit entries, whatever the upstream sent; for "chest" the only
\* request is the one for muscle ID 4.
C9_AtMostLimit ==
    \A i \in Invocations :
        ByMuscle(i) =>
            /\ (Returned(i) /\ result[i].kind = "json" /\ args[i].limit >= 0)
                   => Len(result[i].payload.exercises) <= args[i].limit
            /\ Lower(args[i].muscle_group) = s_chest =>
                   /\ Len(calls[i]) = 1
                   /\ calls[i][1].filter = "muscles"
                   /\ calls[i][1].value = 4

\* the upstream sent more records than the limit and the list was cut
C9_Witness ==
    \E i \in Invocations :
        /\ ByMuscle(i) /\ Returned(i)
        /\ result[i].kind = "json"
        /\ args[i].limit >= 1
        /\ result[i].payload.total_exercises > args[i].limit
        /\ Len(result[i].payload.exercises) = args[i].limit

SevenGroups ==
    << <<"c","h","e","s","t">>, <<"b","a","c","k">>,
       <<"s","h","o","u","l","d","e","r","s">>, <<"a","r","m","s">>,
       <<"l","e","g","s">>, <<"a","b","s">>, <<"c","o","r","e">> >>

IsGroup(g) == \E k \in 1..Len(SevenGroups) : Lower(g) = SevenGroups[k]

IsInvalidGroupMessage(v) ==
    /\ v.kind = "text"
    /\ v.prefix = "Invalid muscle group. Available groups"

\* C10: get_exercises_by_muscle answers a group that is none of the seven
\* keys (letter case ignored) with the invalid-group message listing exactly
\* the seven keys, without any upstream call; it never answers one of the
\* seven keys, in any letter case, with that message.
C10_InvalidGroup ==
    \A i \in Invocations :
        ByMuscle(i) =>
            IF IsGroup(args[i].muscle_group)
            THEN ~IsInvalidGroupMessage(result[i])
            ELSE /\ Returned(i)
                 /\ IsInvalidGroupMessage(result[i])
                 /\ result[i].interp = <<"available_groups">>
                 /\ result[i].groups = SevenGroups
                 /\ calls[i] = <<>>

\* "chests" was refused, and so was the empty string
C10_Witness ==
    \E i \in Invocations :
        /\ ByMuscle(i) /\ Returned(i)
        /\ args[i].muscle_group \in {s_chests, s_empty}
        /\ IsInvalidGroupMessage(result[i])
        /\ calls[i] = <<>>

\* the query the tool must send for a food
ExpectedFoodQuery(food_name, quantity, unit) ==
    IF quantity = 100 /\ unit = "serving" THEN food_name
    ELSE <<FloatStr(quantity), unit>> \o food_name

\* the query the tool must send for an exercise
ExpectedExerciseQuery(exercise_name, duration_min) ==
    IF duration_min = 30 THEN exercise_name
    ELSE <<IntStr(duration_min), "minutes">> \o exercise_name

\* C11: get_food_nutrients and compare_foods send the food name verbatim
\* exactly when quantity is 1.0 and unit is "serving", and otherwise
\* "<quantity> <unit> <food_name>" (compare_foods for both foods);
\* calculate_exercise_calories sends the bare exercise name exactly when
\* duration_min is 30, and otherwise "<duration_min> minutes <name>".
C11_DefaultQuery ==
    \A i \in Invocations :
        /\ (Running(i) /\ tool[i] = "get_food_nutrients") =>
               /\ Len(calls[i]) = 1
               /\ calls[i][1].query =
                      ExpectedFoodQuery(args[i].food_name, args[i].quantity,
                                        args[i].unit)
        /\ (Running(i) /\ tool[i] = "compare_foods") =>
               /\ Len(calls[i]) >= 1
               /\ calls[i][1].query =
                      ExpectedFoodQuery(args[i].food1, args[i].quantity,
                                        args[i].unit)
               /\ Len(calls[i]) >= 2 =>
                      calls[i][2].query =
                          ExpectedFoodQuery(args[i].food2, args[i].quantity,
                                            args[i].unit)
        /\ (Running(i) /\ tool[i] = "calculate_exercise_calories") =>
               /\ Len(calls[i]) = 1
               /\ calls[i][1].query =
                      ExpectedExerciseQuery(args[i].exercise_name,
                                            args[i].duration_min)

\* compare_foods sent both lookups for two servings, each prefixed
C11_Witness ==
    \E i \in Invocations :
        /\ Returned(i) /\ tool[i] = "compare_foods"
        /\ args[i].quantity = 200 /\ args[i].unit = "serving"
        /\ Len(calls[i]) = 2
        /\ calls[i][1].query = <<"2.0", "serving", "apple">>
        /\ calls[i][2].query = <<"2.0", "serving", "banana">>

\* the Mifflin-St Jeor value of a profile, in hundredths of a kcal
MifflinStJeor(a, offset) ==
    10 * a.weight_kg + (625 * a.height_cm) \div 100 - 500 * a.age + offset

ExpectedBmr(a) ==
    IF Lower(a.gender) = <<"m","a","l","e">>
    THEN MifflinStJeor(a, 500) ELSE MifflinStJeor(a, -16100)

DailyNeeds(i) ==
    /\ Returned(i) /\ tool[i] = "calculate_daily_needs"
    /\ result[i].kind = "json"

Plan(i) ==
    /\ Returned(i) /\ tool[i] = "create_fitness_plan"
    /\ result[i].kind = "json"

\* the profile of a create_fitness_plan invocation
ProfileOf(a) ==
    Profile(a.age, a.gender, a.weight_kg, a.height_cm, a.activity_level)

\* C12: calculate_daily_needs and create_fitness_plan both compute
\* BMR = 10w + 6.25h - 5a + 5 for gender "male" in any letter case and
\* 10w + 6.25h - 5a - 161 for every other gender, so the plan's maintenance
\* calories are the daily_caloric_needs calculate_daily_needs reports for
\* the same profile.
C12_Bmr ==
    \A i \in Invocations :
        /\ DailyNeeds(i) =>
               result[i].payload.bmr = Round(ExpectedBmr(args[i]), 10)
        /\ Plan(i) =>
               /\ result[i].payload.bmr = Round(ExpectedBmr(args[i]), 100)
               /\ LET alone == Begin("calculate_daily_needs",
                                     ProfileOf(args[i])).result
                  IN alone.kind = "json" =>
                         result[i].payload.maintenance =
                             alone.payload.daily_caloric_needs

\* a plan for a profile whose gender is written "Male" reports the male BMR,
\* 1648.75 rounded to 1649
C12_Witness ==
    \E i \in Invocations :
        /\ Plan(i)
        /\ args[i].gender = <<"M","a","l","e">>
        /\ args[i].weight_kg = 7000 /\ args[i].height_cm = 17500
        /\ result[i].payload.bmr = 1649

\* the multiplier table of the claim, in thousandths
MultiplierTable(level) ==
    CASE level = <<"s","e","d","e","n","t","a","r","y">> -> 1200
      [] level = <<"l","i","g","h","t">> -> 1375
      [] level = <<"m","o","d","e","r","a","t","e">> -> 1550
      [] level = <<"a","c","t","i","v","e">> -> 1725
      [] level = <<"v","e","r","y","_","a","c","t","i","v","e">> -> 1900
      [] OTHER -> 1550

\* the calories both tools report for a multiplier m
Calories(a, m) == Round(ExpectedBmr(a) * m, 100000)

\* C13 as stated: the multiplier is 1.2, 1.375, 1.55, 1.725, 1.9 for
\* activity_level sedentary, light, moderate, active, very_active, and 1.55
\* for every other string.
C13_MultiplierByString ==
    \A i \in Invocations :
        /\ DailyNeeds(i) =>
               result[i].payload.daily_caloric_needs =
                   Calories(args[i], MultiplierTable(args[i].activity_level))
        /\ Plan(i) =>
               result[i].payload.maintenance =
                   Calories(args[i], MultiplierTable(args[i].activity_level))

\* C13 amended: the multiplier is 1.2, 1.375, 1.55, 1.725, 1.9 for
\* activity_level sedentary, light, moderate, active, very_active written in
\* any letter case, and 1.55 for every string that is none of the five once
\* lower-cased.
C13_Multiplier ==
    \A i \in Invocations :
        /\ DailyNeeds(i) =>
               result[i].payload.daily_caloric_needs =
                   Calories(args[i],
                            MultiplierTable(Lower(args[i].activity_level)))
        /\ Plan(i) =>
               result[i].payload.maintenance =
                   Calories(args[i],
                            MultiplierTable(Lower(args[i].activity_level)))

\* "SEDENTARY" got 1.2: 1648.75 * 1.2 = 1978.5, reported as 1978
C13_Witness ==
    \E i \in Invocations :
        /\ DailyNeeds(i)
        /\ args[i].activity_level = <<"S","E","D","E","N","T","A","R","Y">>
        /\ args[i].age = 30 /\ args[i].gender = <<"m","a","l","e">>
        /\ args[i].weight_kg = 7000 /\ args[i].height_cm = 17500
        /\ result[i].payload.daily_caloric_needs = 1978

\* a field of a returned food, a missing field counted as 0, in hundredths
FieldOf(food, key) ==
    IF food.fld = "absent" \/ ~DictHas(Nutrients(food.id), key) THEN 0
    ELSE DictGet(Nutrients(food.id), key, 0)

RECURSIVE SumOver(_, _)
SumOver(foods, key) ==
    IF foods = <<>> THEN 0
    ELSE FieldOf(Head(foods), key) + SumOver(Tail(foods), key)

\* round(grams * kcal_per_gram / kcal * 100, 1), in tenths of a percent
PercentOf(grams, kcal_per_gram, kcal) ==
    Round(grams * kcal_per_gram * 1000, kcal)

Meal(i) ==
    /\ Returned(i) /\ tool[i] = "analyze_meal"
    /\ result[i].kind = "json"

\* the foods of the k-th reply of invocation i
FoodsOf(i, k) == log[i][k].body.records

\* C14: for a non-empty list of returned foods, macronutrient_distribution
\* is the empty mapping when the summed calories are 0, and otherwise holds
\* protein_percent = round(protein*4/calories*100, 1), carbs_percent =
\* round(carbs*4/calories*100, 1), fat_percent = round(fat*9/calories*100, 1)
\* over the sums of every returned food, a missing field counted as 0.
C14_MacroDistribution ==
    \A i \in Invocations :
        Meal(i) =>
            LET foods == FoodsOf(i, 1)
                kcal == SumOver(foods, "nf_calories")
                dist == result[i].payload.macronutrient_distribution
            IN /\ foods # <<>>
               /\ result[i].payload.foods_analyzed = Len(foods)
               /\ kcal = 0 => dist = <<>>
               /\ kcal # 0 =>
                      /\ DictKeys(dist) = <<"protein_percent",
                                            "carbs_percent", "fat_percent">>
                      /\ DictGet(dist, "protein_percent", -1) =
                             PercentOf(SumOver(foods, "nf_protein"), 4, kcal)
                      /\ DictGet(dist, "carbs_percent", -1) =
                             PercentOf(SumOver(foods, "nf_total_carbohydrate"),
                                       4, kcal)
                      /\ DictGet(dist, "fat_percent", -1) =
                             PercentOf(SumOver(foods, "nf_total_fat"), 9, kcal)

\* an apple and an egg: 166.14 kcal, 6.75 g protein, 16.3 percent
C14_Witness ==
    \E i \in Invocations :
        /\ Meal(i)
        /\ Len(FoodsOf(i, 1)) = 2
        /\ FoodsOf(i, 1)[1].id = 1 /\ FoodsOf(i, 1)[2].id = 2
        /\ DictGet(result[i].payload.macronutrient_distribution,
                   "protein_percent", -1) = 163

\* a meal of foods without calories has no distribution
C14_WitnessZero ==
    \E i \in Invocations :
        /\ Meal(i)
        /\ FoodsOf(i, 1)[1].id = 4
        /\ result[i].payload.macronutrient_distribution = <<>>

Comparison(i) ==
    /\ Returned(i) /\ tool[i] = "compare_foods"
    /\ result[i].kind = "json"

TrackedFields ==
    <<"calories", "protein", "carbs", "fat", "fiber", "sodium">>

\* the provider's key of a tracked field
ProviderKey(field) ==
    CASE field = "calories" -> "nf_calories"
      [] field = "protein" -> "nf_protein"
      [] field = "carbs" -> "nf_total_carbohydrate"
      [] field = "fat" -> "nf_total_fat"
      [] field = "fiber" -> "nf_dietary_fiber"
      [] field = "sodium" -> "nf_sodium"

\* C15: when both lookups of compare_foods return a food, every entry of
\* "differences" is the value reported under food2 minus the value reported
\* under food1 for the same field, signed; both values are those of the
\* first food of each reply, a missing field counted as 0.
C15_Differences ==
    \A i \in Invocations :
        Comparison(i) =>
            LET p == result[i].payload IN
            /\ Len(log[i]) = 2
            /\ DictKeys(p.differences) = TrackedFields
            /\ \A k \in 1..Len(TrackedFields) :
                  LET f == TrackedFields[k] IN
                  /\ DictHas(p.food1, f) /\ DictHas(p.food2, f)
                  /\ DictGet(p.food1, f, 0) =
                         FieldOf(FoodsOf(i, 1)[1], ProviderKey(f))
                  /\ DictGet(p.food2, f, 0) =
                         FieldOf(FoodsOf(i, 2)[1], ProviderKey(f))
                  /\ DictGet(p.differences, f, 0) =
                         DictGet(p.food2, f, 0) - DictGet(p.food1, f, 0)

\* an egg against an apple: 23.14 kcal less, 5.81 g protein more, and a
\* fiber difference of -4.37 g because the egg lists no fiber
C15_Witness ==
    \E i \in Invocations :
        /\ Comparison(i)
        /\ FoodsOf(i, 1)[1].id = 1 /\ FoodsOf(i, 2)[1].id = 2
        /\ DictGet(result[i].payload.differences, "calories", 0) = -2314
        /\ DictGet(result[i].payload.differences, "protein", 0) = 581
        /\ DictGet(result[i].payload.differences, "fiber", 0) = -437

Progress(i) ==
    /\ Returned(i) /\ tool[i] = "track_weekly_progress"
    /\ result[i].kind = "json"

\* track_weekly_progress(78.5, 75, 3, "lose_weight")
WorkedExample(i) ==
    /\ Progress(i)
    /\ args[i] = [current_weight |-> 7850, target_weight |-> 7500,
                  weekly_workouts_completed |-> 3, goal |-> "lose_weight"]

FrequencyNote == "Increase workout frequency to reach your goals faster"
CalorieNote ==
    "Consider reducing daily calories by 100-200 or increasing cardio"
ConsistencyNote == "Try to maintain consistency with your workout schedule"

Holds(list, note) == \E k \in 1..Len(list) : list[k] = note

\* C16 as stated: for track_weekly_progress(78.5, 75, 3, "lose_weight")
\* (completion 75.0, status "Good - on track") the recommendations do not
\* hold the frequency-increase note and do hold the calorie/cardio note.
C16_NoFrequencyNote ==
    \A i \in Invocations :
        WorkedExample(i) =>
            /\ result[i].payload.completion_percentage = 750
            /\ result[i].payload.workout_status = "Good - on track"
            /\ ~Holds(result[i].payload.recommendations, FrequencyNote)
            /\ Holds(result[i].payload.recommendations, CalorieNote)

\* C16 amended: for track_weekly_progress(78.5, 75, 3, "lose_weight")
\* (completion 75.0, status "Good - on track") the recommendations are the
\* frequency-increase note (3 workouts are fewer than the 4 recommended)
\* followed by the calorie/cardio note, and nothing else.
C16_WorkedExample ==
    \A i \in Invocations :
        WorkedExample(i) =>
            /\ result[i].payload.completion_percentage = 750
            /\ result[i].payload.workout_status = "Good - on track"
            /\ result[i].payload.recommendations =
                   <<FrequencyNote, CalorieNote>>

\* the worked example returned its summary
C16_Witness ==
    \E i \in Invocations :
        /\ WorkedExample(i)
        /\ Len(result[i].payload.recommendations) = 2

\* round(x / rate), x in hundredths of a kg, rate 1/per_kg kg a week
WeeksAt(x, per_kg) == Round(per_kg * x, 100)

\* the weeks the claim gives for the arguments a
ExpectedWeeks(a) ==
    IF a.goal = "lose_weight" /\ a.current_weight > a.target_weight
    THEN LET w == WeeksAt(a.current_weight - a.target_weight, 2)
         IN IF w < 1 THEN 1 ELSE w
    ELSE IF a.goal = "gain_muscle" /\ a.current_weight < a.target_weight
    THEN LET w == WeeksAt(a.target_weight - a.current_weight, 4)
         IN IF w < 1 THEN 1 ELSE w
    ELSE 0

\* C17: estimated_weeks_to_goal is max(1, round((current - target)/0.5))
\* for lose_weight with current > target, max(1, round((target -
\* current)/0.25)) for gain_muscle with current < target, and 0 otherwise;
\* target_date is the "Target achieved" sentinel exactly when the reported
\* weeks are 0.
C17_WeeksToGoal ==
    \A i \in Invocations :
        Progress(i) =>
            LET p == result[i].payload IN
            /\ p.estimated_weeks_to_goal = ExpectedWeeks(args[i])
            /\ (p.target_date.text = "Target achieved")
                   <=> (p.estimated_weeks_to_goal = 0)
            /\ p.estimated_weeks_to_goal > 0 =>
                   p.target_date.weeks_from_now = p.estimated_weeks_to_goal

\* 78.5 kg against 75 kg: seven weeks, and a date
C17_Witness ==
    \E i \in Invocations :
        /\ WorkedExample(i)
        /\ result[i].payload.estimated_weeks_to_goal = 7
        /\ result[i].payload.target_date.text # "Target achieved"

\* 0.13 kg to lose rounds to zero weeks and is reported as one week
C17_WitnessFloor ==
    \E i \in Invocations :
        /\ Progress(i)
        /\ args[i].goal = "lose_weight" /\ args[i].current_weight = 7513
        /\ result[i].payload.estimated_weeks_to_goal = 1

\* C18 as stated: for goals lose_weight and gain_muscle, progress_status is
\* "Target reached" exactly when estimated_weeks_to_goal is 0, that is when
\* no distance to the goal remains (lose_weight: current <= target;
\* gain_muscle: current >= target).
C18_TargetReached ==
    \A i \in Invocations :
        (Progress(i) /\ args[i].goal \in {"lose_weight", "gain_muscle"}) =>
            LET p == result[i].payload
                none_left ==
                    IF args[i].goal = "lose_weight"
                    THEN args[i].current_weight <= args[i].target_weight
                    ELSE args[i].current_weight >= args[i].target_weight
            IN /\ none_left => p.progress_status = "Target reached"
               /\ (p.progress_status = "Target reached")
                      <=> (p.estimated_weeks_to_goal = 0)

Search(i) ==
    /\ Returned(i) /\ tool[i] = "search_foods"
    /\ result[i].kind = "json"

\* the list the provider sent under a key, empty when the key is missing
ProviderBucket(present, recs) == IF present THEN recs ELSE <<>>

\* a returned bucket is the first entries of the provider's, at most cap
LeadingEntries(bucket, provided, cap) ==
    /\ Len(bucket) <= cap
    /\ Len(bucket) = IF Len(provided) < cap THEN Len(provided) ELSE cap
    /\ \A k \in 1..Len(bucket) :
          /\ bucket[k].id = provided[k].id
          /\ bucket[k].food_name = provided[k].name

\* C19: for limit >= 0, search_foods returns at most min(limit, 50) // 2
\* common foods and at most min(limit, 50) // 2 branded foods, each bucket
\* being the leading entries of the provider's bucket, in its order.
C19_Buckets ==
    \A i \in Invocations :
        (Search(i) /\ args[i].limit >= 0) =>
            LET cap == (IF args[i].limit < 50 THEN args[i].limit ELSE 50)
                           \div 2
                body == log[i][1].body
            IN /\ LeadingEntries(result[i].payload.common_foods,
                                 ProviderBucket(body.key, body.records), cap)
               /\ LeadingEntries(result[i].payload.branded_foods,
                                 ProviderBucket(body.key2, body.records2), cap)

\* limit 52 is capped: 25 of the provider's 26 common foods come back
C19_Witness ==
    \E i \in Invocations :
        /\ Search(i)
        /\ args[i].limit = 52
        /\ Len(log[i][1].body.records) = 26
        /\ Len(result[i].payload.common_foods) = 25

\* the calorie delta of the claim, in kcal
GoalDelta(goal) ==
    CASE goal = "lose_weight" -> -500
      [] goal = "gain_muscle" -> 300
      [] goal = "maintain" -> 0
      [] goal = "athletic_performance" -> 200
      [] OTHER -> 0

\* the protein per kg of the claim, in tenths of a gram
GoalProtein(goal) ==
    CASE goal = "gain_muscle" -> 16
      [] goal = "lose_weight" -> 12
      [] OTHER -> 10

\* C20: create_fitness_plan sets target calories = maintenance calories +
\* delta, delta being -500, +300, 0, +200 for lose_weight, gain_muscle,
\* maintain, athletic_performance and 0 for every other goal; protein grams
\* are weight_kg * 1.6 for gain_muscle, * 1.2 for lose_weight and * 1.0
\* for every other goal; the reported adjustment is the delta applied.
C20_GoalTables ==
    \A i \in Invocations :
        Plan(i) =>
            LET p == result[i].payload
                a == args[i]
                maintenance ==
                    ExpectedBmr(a) * MultiplierTable(Lower(a.activity_level))
            IN /\ p.adjustment = GoalDelta(a.goal)
               /\ p.target =
                      Round(maintenance + 100000 * GoalDelta(a.goal), 100000)
               /\ p.target = p.maintenance + p.adjustment
               /\ p.protein = Round(a.weight_kg * GoalProtein(a.goal), 100)

\* a 70 kg profile gaining muscle: 300 kcal over maintenance, 112.0 g protein
C20_Witness ==
    \E i \in Invocations :
        /\ Plan(i)
        /\ args[i].goal = "gain_muscle" /\ args[i].weight_kg = 7000
        /\ result[i].payload.adjustment = 300
        /\ result[i].payload.target = result[i].payload.maintenance + 300
        /\ result[i].payload.protein = 1120

(***************************************************************************)
(* The workout structure of a plan, read off the replies it got.           *)
(***************************************************************************)
PlanGroups == <<"chest", "back", "legs", "shoulders", "arms">>

\* a reply that raises inside the fetch block: no reply at all, or a 200
\* whose body is not a JSON object or whose listed exercise has a null
\* description
Breaks(o) ==
    \/ o.kind = "transport"
    \/ /\ o.status = 200
       /\ \/ o.body.form # "object"
          \/ /\ o.body.key
             /\ \E k \in 1..Len(o.body.records) :
                    k <= 3 /\ o.body.records[k].fld = "null"

Broken(i) == \E k \in 1..Len(log[i]) : Breaks(log[i][k])

FallbackName(g) ==
    CASE g = "chest" -> <<"Push-ups">>
      [] g = "back" -> <<"Pull-ups">>
      [] g = "legs" -> <<"Squats">>
      [] g = "shoulders" -> <<"Pike Push-ups">>
      [] g = "arms" -> <<"Tricep Dips">>

\* the first three exercises a reply lists
Listed(o) ==
    LET recs == IF o.body.key THEN o.body.records ELSE <<>>
    IN [k \in 1..(IF Len(recs) < 3 THEN Len(recs) ELSE 3) |->
            [id |-> recs[k].id, name |-> recs[k].name]]

\* the exercises of the g-th group
GroupList(i, g) ==
    IF Broken(i) THEN <<[id |-> 0, name |-> FallbackName(PlanGroups[g])]>>
    ELSE IF log[i][g].status = 200 THEN Listed(log[i][g])
    ELSE <<>>

\* the entries of a list at index 0 and 1, and those from index 1 onward
FirstTwo(s) == [k \in 1..(IF Len(s) < 2 THEN Len(s) ELSE 2) |-> s[k]]
FromSecond(s) == [k \in 1..(IF Len(s) = 0 THEN 0 ELSE Len(s) - 1) |-> s[k + 1]]

DayOf(i, key) == DictGet(result[i].payload.weekly_split, key, <<>>)

\* C21: the weekly split has exactly day_1..day_4 when workout_days is 4,
\* day_1..day_5 (day_5 the fixed cardio day) when it is 5 or more, and
\* day_1..day_3 (upper body, lower body, full body) when it is below 4; in
\* the 4/5-day split day_1 is chest plus the first two arm exercises and
\* day_2 is back plus the arm exercises from index 1 onward.
C21_WeeklySplit ==
    \A i \in Invocations :
        Plan(i) =>
            LET d == args[i].workout_days
                keys == DictKeys(result[i].payload.weekly_split)
                arms == GroupList(i, 5)
            IN /\ d = 4 => keys = <<"day_1", "day_2", "day_3", "day_4">>
               /\ d >= 5 =>
                    /\ keys = <<"day_1", "day_2", "day_3", "day_4", "day_5">>
                    /\ DayOf(i, "day_5").exercises
                         = <<[id |-> 0, name |-> <<"30min cardio">>]>>
               /\ d < 4 =>
                    /\ keys = <<"day_1", "day_2", "day_3">>
                    /\ DayOf(i, "day_1").focus = "Upper Body"
                    /\ DayOf(i, "day_2").focus = "Lower Body"
                    /\ DayOf(i, "day_3").focus = "Full Body"
               /\ d >= 4 =>
                    /\ DayOf(i, "day_1").exercises
                         = GroupList(i, 1) \o FirstTwo(arms)
                    /\ DayOf(i, "day_2").exercises
                         = GroupList(i, 2) \o FromSecond(arms)

\* a four-day plan whose arm fetch listed three exercises: the middle one
\* is on both days, the first only on day_1, the last only on day_2
C21_Witness ==
    \E i \in Invocations :
        /\ Plan(i) /\ args[i].workout_days = 4 /\ ~Broken(i)
        /\ Len(GroupList(i, 5)) = 3
        /\ Len(GroupList(i, 1)) = 3 /\ Len(GroupList(i, 2)) = 0
        /\ Len(DayOf(i, "day_1").exercises) = 5
        /\ Len(DayOf(i, "day_2").exercises) = 2

\* a plan for five or more days, with its cardio day
C21_WitnessCardio ==
    \E i \in Invocations :
        /\ Plan(i) /\ args[i].workout_days >= 5
        /\ Len(result[i].payload.weekly_split) = 5

Suggestion(i) ==
    /\ Returned(i) /\ tool[i] = "suggest_pre_post_workout_meals"

\* "cardio" in any letter case
IsCardio(workout_type) ==
    /\ Len(workout_type) = 6
    /\ workout_type[1] \in {"c", "C"} /\ workout_type[2] \in {"a", "A"}
    /\ workout_type[3] \in {"r", "R"} /\ workout_type[4] \in {"d", "D"}
    /\ workout_type[5] \in {"i", "I"} /\ workout_type[6] \in {"o", "O"}

\* C22: for every workout_type, suggest_pre_post_workout_meals returns
\* exactly two pre-workout and two post-workout meal options: the cardio
\* entries when workout_type is "cardio" in any letter case, the strength
\* entries for every other type ("mixed" and "hiit" included).
C22_MealOptions ==
    \A i \in Invocations :
        Suggestion(i) =>
            /\ result[i].kind = "json"
            /\ Len(result[i].payload.pre_options) = 2
            /\ Len(result[i].payload.post_options) = 2
            /\ IF IsCardio(args[i].workout_type)
               THEN /\ result[i].payload.pre_options
                         = <<"Toast with jam", "Greek yogurt with fruit">>
                    /\ result[i].payload.post_options
                         = <<"Chocolate milk", "Tuna sandwich">>
               ELSE /\ result[i].payload.pre_options
                         = <<"Banana with almond butter",
                             "Oatmeal with berries">>
                    /\ result[i].payload.post_options
                         = <<"Protein shake with banana",
                             "Chicken and rice bowl">>

\* "CARDIO" got the cardio entries
C22_Witness ==
    \E i \in Invocations :
        /\ Suggestion(i) /\ args[i].workout_type = s_CARDIO
        /\ result[i].payload.post_options[2] = "Tuna sandwich"

\* "hiit" got the strength entries
C22_WitnessHiit ==
    \E i \in Invocations :
        /\ Suggestion(i) /\ args[i].workout_type = s_hiit
        /\ result[i].payload.pre_options[1] = "Banana with almond butter"

Templates(i) == Running(i) /\ tool[i] = "get_workout_templates"

\* C23: for a fixed upstream reply the workouts list and the
\* available_workouts count of get_workout_templates are the same for every
\* difficulty; the difficulty only shows in the echoed "difficulty" field,
\* verbatim, and never in the upstream request.
C23_DifficultyIgnored ==
    \A i, j \in Invocations :
        Templates(i) /\ Templates(j) =>
            /\ calls[i] = calls[j] /\ Len(calls[i]) = 1
            /\ Returned(i) /\ Returned(j) /\ log[i] = log[j] =>
                 /\ result[i].kind = result[j].kind
                 /\ result[i].kind = "json" =>
                      /\ result[i].payload.workouts
                           = result[j].payload.workouts
                      /\ result[i].payload.available_workouts
                           = result[j].payload.available_workouts
                      /\ result[i].payload.difficulty = args[i].difficulty

\* two difficulties met the same reply listing two workouts
C23_Witness ==
    \E i, j \in Invocations :
        /\ Templates(i) /\ Templates(j) /\ Returned(i) /\ Returned(j)
        /\ args[i].difficulty = "beginner" /\ args[j].difficulty = "Expert"
        /\ log[i] = log[j]
        /\ result[i].kind = "json"
        /\ result[i].payload.available_workouts = 2
        /\ result[i].payload.difficulty # result[j].payload.difficulty

ByEquipment(i) == Running(i) /\ tool[i] = "get_equipment_exercises"

\* the equipment list a well-formed first reply holds
EquipmentList(i) ==
    IF log[i][1].body.key THEN log[i][1].body.records ELSE <<>>

\* the listed entries whose name contains the wanted name, letter case
\* ignored (an entry without a name has the empty name)
Hits(i) ==
    {k \in 1..Len(EquipmentList(i)) :
        IsSubstring(Lower(args[i].equipment_name),
                    Lower(IF EquipmentList(i)[k].fld = "absent" THEN <<>>
                          ELSE EquipmentList(i)[k].name))}

FirstHit(i) == CHOOSE k \in Hits(i) : \A j \in Hits(i) : k <= j

\* the fixed table, 0 for a name it does not hold
TableId(name) ==
    CASE name = s_dumbbell -> 1 [] name = s_barbell -> 2
      [] name = s_bodyweight -> 7 [] name = s_machine -> 3
      [] name = s_cable -> 4 [] name = s_kettlebell -> 9
      [] OTHER -> 0

ExerciseListCall(id, limit) ==
    WgerGet("/exercise/", "equipment", id, limit, 2, <<>>)

IsEquipmentNotFound(i) ==
    /\ Returned(i) /\ Len(calls[i]) = 1
    /\ result[i].kind = "text"
    /\ result[i].prefix = "Equipment not found. Try"

\* C24: get_equipment_exercises first issues one equipment-list call with
\* limit 50; the ID is that of the first listed entry whose name contains
\* equipment_name, letter case ignored; only when no listed entry matches is
\* the fixed table used; when the name is still unresolved the not-found
\* message is returned without an exercise-list call; otherwise exactly one
\* exercise-list call follows, filtered by the resolved ID.
C24_Resolution ==
    \A i \in Invocations :
        ByEquipment(i) =>
            /\ calls[i][1] = WgerGet("/equipment/", "", 0, 50, 0, <<>>)
            /\ Len(calls[i]) <= 2
            /\ Len(log[i]) >= 1 /\ Sound(log[i][1]) =>
                 IF Hits(i) # {}
                 THEN /\ Len(calls[i]) = 2
                      /\ calls[i][2]
                           = ExerciseListCall(EquipmentList(i)[FirstHit(i)].id,
                                              args[i].limit)
                 ELSE IF TableId(Lower(args[i].equipment_name)) # 0
                 THEN /\ Len(calls[i]) = 2
                      /\ calls[i][2]
                           = ExerciseListCall(
                                 TableId(Lower(args[i].equipment_name)),
                                 args[i].limit)
                 ELSE IsEquipmentNotFound(i)

\* what the code does: a matching entry whose id is 0 or missing counts as
\* no match
C24_ResolutionFalsy ==
    \A i \in Invocations :
        ByEquipment(i) =>
            /\ calls[i][1] = WgerGet("/equipment/", "", 0, 50, 0, <<>>)
            /\ Len(calls[i]) <= 2
            /\ Len(log[i]) >= 1 /\ Sound(log[i][1]) =>
                 LET listed == IF Hits(i) # {}
                               THEN EquipmentList(i)[FirstHit(i)].id ELSE 0
                     id == IF listed # 0 THEN listed
                           ELSE TableId(Lower(args[i].equipment_name))
                 IN IF id # 0
                    THEN /\ Len(calls[i]) = 2
                         /\ calls[i][2] = ExerciseListCall(id, args[i].limit)
                    ELSE IsEquipmentNotFound(i)

\* the muscle IDs of a group, in the order of the table
TableIds(g) ==
    CASE Lower(g) = s_chest -> <<4>>
      [] Lower(g) = s_back -> <<12, 13>>
      [] Lower(g) = s_shoulders -> <<2, 3>>
      [] Lower(g) = s_arms -> <<1, 5, 8>>
      [] Lower(g) = s_legs -> <<10, 11, 7, 9>>
      [] Lower(g) \in {s_abs, s_core} -> <<14, 6>>
      [] OTHER -> <<>>

\* q is limit // n: the floor of limit / n
IsFloorOf(q, limit, n) == q * n <= limit /\ limit < (q + 1) * n

\* the records of the replies so far, one reply after the other
RECURSIVE Concatenated(_)
Concatenated(replies) ==
    IF replies = <<>> THEN <<>>
    ELSE (IF Head(replies).body.key THEN Head(replies).body.records
          ELSE <<>>) \o Concatenated(Tail(replies))

IsPrefix(s, t) ==
    Len(s) <= Len(t) /\ \A k \in 1..Len(s) : s[k] = t[k]

\* one exercise-list call per mapped ID, in the order of the table, with
\* limit // n and language 2, and the replies' records in the same order
CallPerId(i) ==
    LET ids == TableIds(args[i].muscle_group)
        n == Len(ids)
    IN /\ Len(calls[i]) <= n
       /\ \A k \in 1..Len(calls[i]) :
            /\ calls[i][k].url[2] = "/exercise/"
            /\ calls[i][k].filter = "muscles"
            /\ calls[i][k].value = ids[k]
            /\ IsFloorOf(calls[i][k].limit, args[i].limit, n)
            /\ calls[i][k].language = 2
       /\ Len(log[i]) < Len(calls[i])
            => \A k \in 1..Len(log[i]) : Sound(log[i][k])
       /\ Returned(i) /\ result[i].kind = "json" =>
            /\ Len(calls[i]) = n /\ Len(log[i]) = n
            /\ result[i].payload.total_exercises
                 = Len(Concatenated(log[i]))
            /\ IsPrefix([k \in 1..Len(result[i].payload.exercises) |->
                            result[i].payload.exercises[k].id],
                        [k \in 1..Len(Concatenated(log[i])) |->
                            Concatenated(log[i])[k].id])

\* C25 as stated: for a valid group with n mapped IDs, while no call fails,
\* get_exercises_by_muscle issues exactly one exercise-list call per mapped
\* ID in the table's order, each with limit // n, which is 0 whenever
\* limit < n, and language 2, and appends the replies' records in order.
C25_ZeroBelowN ==
    \A i \in Invocations :
        ByMuscle(i) /\ TableIds(args[i].muscle_group) # <<>> =>
            /\ CallPerId(i)
            /\ args[i].limit < Len(TableIds(args[i].muscle_group)) =>
                 \A k \in 1..Len(calls[i]) : calls[i][k].limit = 0

\* C25: for a valid group with n mapped IDs, while no call fails,
\* get_exercises_by_muscle issues exactly one exercise-list call per mapped
\* ID in the table's order, each with the floor of limit / n (0 when
\* 0 <= limit < n, negative when limit < 0) and language 2, and appends
\* the replies' records in order.
C25_CallPerId ==
    \A i \in Invocations :
        ByMuscle(i) /\ TableIds(args[i].muscle_group) # <<>> =>
            /\ CallPerId(i)
            /\ (0 <= args[i].limit
                /\ args[i].limit < Len(TableIds(args[i].muscle_group))) =>
                 \A k \in 1..Len(calls[i]) : calls[i][k].limit = 0
            /\ args[i].limit < 0 =>
                 \A k \in 1..Len(calls[i]) : calls[i][k].limit < 0

\* "LEGS" with limit 5: four calls with limit 1, for 10, 11, 7, 9, and the
\* records of all four replies counted
C25_Witness ==
    \E i \in Invocations :
        /\ ByMuscle(i) /\ Returned(i) /\ result[i].kind = "json"
        /\ args[i].muscle_group = s_LEGS /\ args[i].limit = 5
        /\ Len(calls[i]) = 4 /\ calls[i][4].value = 9
        /\ calls[i][4].limit = 1
        /\ Len(log[i][1].body.records) = 2 /\ Len(log[i][4].body.records) = 1
        /\ result[i].payload.total_exercises >= 4

\* three mapped IDs and limit 1: every call asks for 0 records
C25_WitnessZero ==
    \E i \in Invocations :
        /\ ByMuscle(i) /\ args[i].muscle_group = s_arms /\ args[i].limit = 1
        /\ Len(calls[i]) = 3 /\ calls[i][3].limit = 0

\* C28: in every successful result of get_exercises_by_muscle with
\* limit >= 0, total_exercises is the number of entries of the returned
\* exercises list, whatever the upstream sent.
C28_TotalMatches ==
    \A i \in Invocations :
        (ByMuscle(i) /\ Returned(i) /\ result[i].kind = "json"
         /\ args[i].limit >= 0)
            => result[i].payload.total_exercises
                 = Len(result[i].payload.exercises)

PlanRun(i) == Running(i) /\ tool[i] = "create_fitness_plan"

Fallback(g) == <<[id |-> 0, name |-> FallbackName(g)]>>

\* the weekly split built from one fallback exercise per group
FallbackSplit(i) ==
    IF args[i].workout_days >= 4
    THEN /\ DayOf(i, "day_1").exercises = Fallback("chest") \o Fallback("arms")
         /\ DayOf(i, "day_2").exercises = Fallback("back")
         /\ DayOf(i, "day_3").exercises = Fallback("legs")
         /\ DayOf(i, "day_4").exercises = Fallback("shoulders")
    ELSE /\ DayOf(i, "day_1").exercises = Fallback("chest") \o Fallback("back")
         /\ DayOf(i, "day_2").exercises = Fallback("legs")
         /\ DayOf(i, "day_3").exercises
              = Fallback("shoulders") \o Fallback("arms")

\* C26 as stated: when a fetch of create_fitness_plan raises, the partial
\* results are dropped, the plan is built from the fallback table with one
\* exercise per group, and the tool returns the plan document, never an
\* error text.
C26_FallbackAlways ==
    \A i \in Invocations :
        (PlanRun(i) /\ Returned(i) /\ Broken(i)) =>
            /\ result[i].kind = "json"
            /\ FallbackSplit(i)

\* C26: when a fetch of create_fitness_plan raises (at any of the five
\* fetches), no further fetch is made, the partial results are dropped and
\* the plan is built from the fallback table with one exercise per group;
\* the tool returns the plan document unless target_calories is 0, in which
\* case the division after the block makes it return its error text.
C26_Fallback ==
    \A i \in Invocations :
        (PlanRun(i) /\ Broken(i)) =>
            /\ Returned(i) /\ Breaks(log[i][Len(log[i])])
            /\ \A k \in 1..(Len(log[i]) - 1) : ~Breaks(log[i][k])
            /\ IF TargetCalories(args[i]) = 0
               THEN /\ result[i].kind = "text"
                    /\ result[i].prefix = "Error creating fitness plan"
               ELSE /\ result[i].kind = "json"
                    /\ FallbackSplit(i)

\* the fifth fetch raised after four that listed exercises: none of them is
\* in the plan
C26_Witness ==
    \E i \in Invocations :
        /\ Plan(i) /\ Len(log[i]) = 5 /\ Breaks(log[i][5])
        /\ \A k \in 1..4 : Len(Listed(log[i][k])) = 3 /\ log[i][k].status = 200
        /\ DayOf(i, "day_3").exercises = Fallback("legs")

\* a fetch answered with a status other than 200
Skipped(o) == o.kind = "response" /\ o.status # 200

\* C27: in create_fitness_plan a fetch answered with a status other than
\* 200 does not trigger the fallback: the loop goes on with the next group,
\* and in the plan the group has no exercises, so that a day built only
\* from such groups has an empty exercise list.
C27_SkippedGroup ==
    \A i \in Invocations :
        PlanRun(i) =>
            /\ \A k \in 1..Len(log[i]) :
                 (Skipped(log[i][k]) /\ k < 5
                  /\ \A j \in 1..k : ~Breaks(log[i][j]))
                     => /\ Len(calls[i]) >= k + 1
                        /\ calls[i][k + 1].value = <<4, 12, 10, 2, 1>>[k + 1]
            /\ (Plan(i) /\ ~Broken(i)) =>
                 /\ Len(log[i]) = 5
                 /\ \A g \in 1..5 : Skipped(log[i][g]) => GroupList(i, g) = <<>>
                 /\ IF args[i].workout_days >= 4
                    THEN /\ DayOf(i, "day_1").exercises
                              = GroupList(i, 1) \o FirstTwo(GroupList(i, 5))
                         /\ DayOf(i, "day_2").exercises
                              = GroupList(i, 2) \o FromSecond(GroupList(i, 5))
                         /\ DayOf(i, "day_3").exercises = GroupList(i, 3)
                         /\ DayOf(i, "day_4").exercises = GroupList(i, 4)
                    ELSE /\ DayOf(i, "day_1").exercises
                              = GroupList(i, 1) \o GroupList(i, 2)
                         /\ DayOf(i, "day_2").exercises = GroupList(i, 3)
                         /\ DayOf(i, "day_3").exercises
                              = GroupList(i, 4) \o GroupList(i, 5)

\* the legs fetch was answered 404 and the others listed exercises: the
\* lower-body day is empty, the upper-body day is not
C27_Witness ==
    \E i \in Invocations :
        /\ Plan(i) /\ ~Broken(i) /\ args[i].workout_days = 3
        /\ log[i][3].status = 404
        /\ \A k \in {1, 2, 4, 5} : log[i][k].status = 200
        /\ DayOf(i, "day_2").exercises = <<>>
        /\ Len(DayOf(i, "day_1").exercises) = 6

\* the position of a note in a list, 0 when it is not there
Position(list, note) ==
    IF Holds(list, note) THEN CHOOSE k \in 1..Len(list) : list[k] = note
    ELSE 0

\* C29: in track_weekly_progress, whenever the consistency recommendation
\* is present the frequency recommendation is present too and comes before
\* it; the workout status is "Poor ..." or "Fair ..." exactly when the
\* consistency recommendation is present.
C29_Consistency ==
    \A i \in Invocations :
        Progress(i) =>
            LET notes == result[i].payload.recommendations IN
            /\ Holds(notes, ConsistencyNote) =>
                 /\ Holds(notes, FrequencyNote)
                 /\ Position(notes, FrequencyNote)
                      < Position(notes, ConsistencyNote)
            /\ result[i].payload.workout_status
                 \in {"Poor - need to increase frequency",
                      "Fair - room for improvement"}
                 <=> Holds(notes, ConsistencyNote)

\* two workouts, losing weight: frequency, calorie and consistency notes in
\* that order, status "Fair"
C29_Witness ==
    \E i \in Invocations :
        /\ Progress(i) /\ args[i].weekly_workouts_completed = 2
        /\ result[i].payload.recommendations
             = <<FrequencyNote, CalorieNote, ConsistencyNote>>
        /\ result[i].payload.workout_status = "Fair - room for improvement"

\* three workouts: the frequency note without the consistency note
C29_WitnessGood ==
    \E i \in Invocations :
        /\ Progress(i) /\ args[i].weekly_workouts_completed = 3
        /\ Holds(result[i].payload.recommendations, FrequencyNote)
        /\ ~Holds(result[i].payload.recommendations, ConsistencyNote)
        /\ result[i].payload.workout_status = "Good - on track"

StatusRead(i) == Returned(i) /\ tool[i] = "fitness://status"

NutritionixEntry(i) ==
    CHOOSE e \in {result[i].payload.apis_integrated[k] :
                     k \in 1..Len(result[i].payload.apis_integrated)} :
        e.name = "Nutritionix"

\* C30: in a process that finished loading, every read of the status
\* resource reports Nutritionix as "connected": "disconnected" is never
\* reported.
C30_AlwaysConnected ==
    \A i \in Invocations :
        StatusRead(i) =>
            /\ result[i].kind = "json"
            /\ NutritionixEntry(i).status = "connected"
            /\ \A k \in 1..Len(result[i].payload.apis_integrated) :
                   result[i].payload.apis_integrated[k].status
                       # "disconnected"

\* the modular layout answered a status read while a tool was waiting for
\* the upstream
C30_Witness ==
    \E i, j \in Invocations :
        /\ StatusRead(i) /\ layout = "modular"
        /\ NutritionixEntry(i).status = "connected"
        /\ pc[j] = "await"

====
